---- MODULE Spec2Model ----
(***************************************************************************)
(* State-machine model of the mail-guard-pilot discovery-and-verification  *)
(* pipeline: the crawl-domain and generate-email-candidates edge functions *)
(* (supabase/functions/*/index.ts) over the keyed record store.            *)
(*                                                                         *)
(* Strings are sequences of one-character strings.  A pattern template is  *)
(* a sequence of tokens: the placeholders "{first}", "{last}", "{f}",      *)
(* "{l}" and literal characters.                                           *)
(***************************************************************************)
EXTENDS Integers, Sequences, FiniteSets, TLC

\* ------------------------------------------------------------------------
\* Bounds of the model
\* ------------------------------------------------------------------------
\* number of generate-email-candidates requests in one behaviour
MaxTriggers == 2
\* number of crawl sessions (crawl-domain requests) in one behaviour
MaxCrawls == 2
\* number of store / function calls that may fail in one behaviour
MaxFaults == 1
\* number of leading patterns of the fixed library the pipeline model expands
LibLen == 6
\* number of crawls the generate-email-candidates handlers start in one behaviour
MaxInvokedCrawls == 1
\* number of addresses in the input lists of the pattern detector
MaxSamples == 4

\* probe-send requests and webhook deliveries
MaxSends == 1
MaxEvents == 2

\* ------------------------------------------------------------------------
\* Generic sequence helpers
\* ------------------------------------------------------------------------
Min(a, b) == IF a < b THEN a ELSE b

RECURSIVE Flatten(_)
Flatten(ss) == IF ss = <<>> THEN <<>> ELSE Head(ss) \o Flatten(Tail(ss))

\* index of the first element of s satisfying equality with x, 0 if none
\* (Array.prototype.indexOf / findIndex, 1-based)
RECURSIVE IndexOfFrom(_, _, _)
IndexOfFrom(s, x, i) ==
    IF i > Len(s) THEN 0
    ELSE IF s[i] = x THEN i
    ELSE IndexOfFrom(s, x, i + 1)

IndexOf(s, x) == IndexOfFrom(s, x, 1)

Includes(s, x) == \E i \in 1..Len(s) : s[i] = x

Range(s) == {s[i] : i \in 1..Len(s)}

\* number of occurrences of x in s
RECURSIVE Count(_, _)
Count(s, x) ==
    IF s = <<>> THEN 0
    ELSE (IF Head(s) = x THEN 1 ELSE 0) + Count(Tail(s), x)

\* [...new Set(s)] : first occurrences, insertion order kept
UniqueSeq(s) ==
    LET firsts == SelectSeq([i \in 1..Len(s) |-> i],
                            LAMBDA i : \A j \in 1..(i - 1) : s[j] # s[i])
    IN [k \in 1..Len(firsts) |-> s[firsts[k]]]

\* String.prototype.endsWith
EndsWith(s, suffix) ==
    /\ Len(s) >= Len(suffix)
    /\ SubSeq(s, Len(s) - Len(suffix) + 1, Len(s)) = suffix

\* ------------------------------------------------------------------------
\* Characters
\* ------------------------------------------------------------------------
\* String.prototype.toLowerCase on one character of the model's alphabet
LowerChar(c) ==
    CASE c = "A" -> "a"
      [] c = "B" -> "b"
      [] c = "J" -> "j"
      [] c = "D" -> "d"
      [] OTHER -> c

\* a name or domain used as typed
KeepCase(s) == s

ToLowerCase(s) == [i \in 1..Len(s) |-> LowerChar(s[i])]

\* \s of the regular expressions
IsSpace(c) == c = " "

\* ------------------------------------------------------------------------
\* generate-email-candidates: pattern library and generator
\* ------------------------------------------------------------------------
FIRST == "{first}"
LAST == "{last}"
FI == "{f}"
LI == "{l}"

DEFAULT_EMAIL_PATTERNS ==
    << \* Common corporate patterns
       <<FIRST, ".", LAST>>,
       <<FIRST, LAST>>,
       <<FI, ".", LAST>>,
       <<FI, LAST>>,
       <<FIRST, ".", LI>>,
       <<FIRST, LI>>,
       <<FIRST, "_", LAST>>,
       <<FI, "_", LAST>>,
       <<FIRST, "_", LI>>,
       <<FI, "_", LI>>,
       \* Reverse patterns
       <<LAST, ".", FIRST>>,
       <<LAST, FIRST>>,
       <<LAST, ".", FI>>,
       <<LAST, FI>>,
       <<LI, ".", FIRST>>,
       <<LI, FIRST>>,
       <<LI, ".", FI>>,
       <<LI, FI>>,
       <<LAST, "_", FIRST>>,
       <<LAST, "_", FI>>,
       <<LI, "_", FIRST>>,
       <<LI, "_", FI>>,
       \* Single name patterns
       <<FIRST>>,
       <<LAST>>,
       <<FI, ".", LI>>,
       <<FI, LI>>,
       <<FI, "_", LI>>,
       <<LI, "_", FI>>,
       \* With numbers
       <<FIRST, ".", LAST, "1">>,
       <<FIRST, LAST, "1">>,
       <<FI, LAST, "1">>,
       <<FIRST, "1">>,
       <<LAST, "1">>,
       \* With initials and numbers
       <<FIRST, ".", LAST, "0", "1">>,
       <<FI, ".", LAST, "0", "1">>,
       <<FIRST, "0", "1">>,
       \* Generic / role-based
       <<"i", "n", "f", "o">>,
       <<"c", "o", "n", "t", "a", "c", "t">>,
       <<"a", "d", "m", "i", "n">>,
       <<"s", "u", "p", "p", "o", "r", "t">>,
       <<"h", "e", "l", "l", "o">>,
       <<"t", "e", "a", "m">>,
       <<"s", "a", "l", "e", "s">>,
       <<"m", "a", "r", "k", "e", "t", "i", "n", "g">>,
       <<"h", "r">>,
       <<"f", "i", "n", "a", "n", "c", "e">>,
       <<"o", "f", "f", "i", "c", "e">>,
       <<"r", "e", "c", "e", "p", "t", "i", "o", "n">>,
       <<"j", "o", "b", "s">>,
       <<"c", "a", "r", "e", "e", "r", "s">>,
       <<"h", "e", "l", "p">>,
       <<"s", "e", "r", "v", "i", "c", "e">>,
       <<"b", "u", "s", "i", "n", "e", "s", "s">>,
       <<"m", "a", "i", "l">> >>

\* the leading part of the library the pipeline model works with
Library == SubSeq(DEFAULT_EMAIL_PATTERNS, 1, Min(LibLen, Len(DEFAULT_EMAIL_PATTERNS)))

\* validateEmailSyntax of the generator: /^[^\s@]+@[^\s@]+\.[^\s@]+$/
GenValidateEmailSyntax(email) ==
    /\ Count(email, "@") = 1
    /\ \A i \in 1..Len(email) : ~IsSpace(email[i])
    /\ LET at == IndexOf(email, "@")
       IN /\ at > 1
          /\ \E d \in (at + 2)..(Len(email) - 1) : email[d] = "."

\* pattern.replace(/{first}/g, first).replace(/{last}/g, last)
\*        .replace(/{f}/g, f).replace(/{l}/g, l)
ExpandPattern(pattern, first, last, f, l) ==
    Flatten([i \in 1..Len(pattern) |->
        CASE pattern[i] = FIRST -> first
          [] pattern[i] = LAST -> last
          [] pattern[i] = FI -> f
          [] pattern[i] = LI -> l
          [] OTHER -> <<pattern[i]>>])

\* String.prototype.charAt(0)
CharAt0(s) == IF s = <<>> THEN <<>> ELSE <<s[1]>>

\* the loop of generateEmailPermutations: one {email, pattern} entry per
\* pattern of the pool whose expansion passes the syntax check
ExpandAll(patterns, firstName, lastName, domain) ==
    LET f == CharAt0(ToLowerCase(firstName))
        l == CharAt0(ToLowerCase(lastName))
        first == ToLowerCase(firstName)
        last == ToLowerCase(lastName)
        emailLocal(pattern) == ExpandPattern(pattern, first, last, f, l)
        email(pattern) == emailLocal(pattern) \o <<"@">> \o ToLowerCase(domain)
    IN SelectSeq([i \in 1..Len(patterns) |->
                     [email |-> email(patterns[i]), pattern |-> patterns[i]]],
                 LAMBDA e : GenValidateEmailSyntax(e.email))

\* a dedupe that keeps the last entry of an address instead of the first
DedupeByEmailKeepingLast(emails) ==
    LET addrs == [i \in 1..Len(emails) |-> emails[i].email]
    IN SelectSeq([i \in 1..Len(emails) |-> [item |-> emails[i], index |-> i]],
                 LAMBDA e : \A j \in (e.index + 1)..Len(emails) : addrs[j] # e.item.email)

\* emails.filter((item, index, arr) =>
\*     arr.findIndex(t => t.email === item.email) === index)
DedupeByEmail(emails) ==
    LET addrs == [i \in 1..Len(emails) |-> emails[i].email]
    IN SelectSeq([i \in 1..Len(emails) |-> [item |-> emails[i], index |-> i]],
                 LAMBDA e : IndexOf(addrs, e.item.email) = e.index)

\* generateEmailPermutations, given the pool getEmailPatterns returned
GenerateEmailPermutations(firstName, lastName, domain, patterns) ==
    LET u == DedupeByEmail(ExpandAll(patterns, firstName, lastName, domain))
    IN [i \in 1..Len(u) |-> u[i].item]

\* ------------------------------------------------------------------------
\* verify-email-advanced: syntax check
\* ------------------------------------------------------------------------
Letters ==
    {"a", "b", "c", "d", "e", "f", "g", "h", "i", "j", "k", "l", "m", "n", "o",
     "p", "q", "r", "s", "t", "u", "v", "w", "x", "y", "z",
     "A", "B", "C", "D", "E", "F", "G", "H", "I", "J", "K", "L", "M", "N", "O",
     "P", "Q", "R", "S", "T", "U", "V", "W", "X", "Y", "Z"}

Digits == {"0", "1", "2", "3", "4", "5", "6", "7", "8", "9"}

\* [a-zA-Z0-9]
IsAlnum(c) == c \in Letters \cup Digits

\* the character class of the local part: letters, digits and
\* . ! # $ % & ' * + / = ? ^ _ { | } ~ - (the class also holds the backquote,
\* which is not in the alphabet of the model)
IsLocalChar(c) ==
    \/ IsAlnum(c)
    \/ c \in {".", "!", "#", "$", "%", "&", "'", "*", "+", "/", "=", "?", "^",
              "_", "{", "|", "}", "~", "-"}

\* String.prototype.split(sep) for a one-character separator
RECURSIVE Split(_, _)
Split(s, sep) ==
    LET i == IndexOf(s, sep)
    IN IF i = 0 THEN <<s>>
       ELSE <<SubSeq(s, 1, i - 1)>> \o Split(SubSeq(s, i + 1, Len(s)), sep)

\* [a-zA-Z0-9](?:[a-zA-Z0-9-]{0,61}[a-zA-Z0-9])?
IsDomainLabel(label) ==
    /\ Len(label) >= 1
    /\ Len(label) <= 63
    /\ IsAlnum(label[1])
    /\ IsAlnum(label[Len(label)])
    /\ \A i \in 1..Len(label) : IsAlnum(label[i]) \/ label[i] = "-"

\* validateEmailSyntax of the verifier: the regular expression, then the
\* split on '@', the length limits and the consecutive-dot check
VerifyValidateEmailSyntax(email) ==
    /\ Count(email, "@") = 1
    /\ LET parts == Split(email, "@")
           localPart == parts[1]
           domain == parts[2]
           labels == Split(domain, ".")
       IN /\ Len(localPart) >= 1
          /\ \A i \in 1..Len(localPart) : IsLocalChar(localPart[i])
          /\ \A k \in 1..Len(labels) : IsDomainLabel(labels[k])
          /\ Len(parts) = 2
          /\ ~(Len(localPart) > 64 \/ Len(domain) > 253)
          /\ ~\E i \in 1..(Len(email) - 1) : email[i] = "." /\ email[i + 1] = "."

\* ------------------------------------------------------------------------
\* verify-email-advanced: disposable domains, MX fallback, deliverability
\* heuristic, score
\* ------------------------------------------------------------------------
\* String.prototype.includes for strings
Contains(s, sub) ==
    \E i \in 0..(Len(s) - Len(sub)) : SubSeq(s, i + 1, i + Len(sub)) = sub

\* disposableDomains of isDisposableEmail
disposableDomains ==
    { <<"1", "0", "m", "i", "n", "u", "t", "e", "m", "a", "i", "l", ".", "c", "o", "m">>,
      <<"t", "e", "m", "p", "m", "a", "i", "l", ".", "o", "r", "g">>,
      <<"g", "u", "e", "r", "r", "i", "l", "l", "a", "m", "a", "i", "l", ".", "c", "o", "m">>,
      <<"m", "a", "i", "l", "i", "n", "a", "t", "o", "r", ".", "c", "o", "m">>,
      <<"0", "-", "m", "a", "i", "l", ".", "c", "o", "m">>,
      <<"1", "-", "m", "a", "i", "l", ".", "c", "o", "m">>,
      <<"2", "-", "m", "a", "i", "l", ".", "c", "o", "m">>,
      <<"3", "3", "m", "a", "i", "l", ".", "c", "o", "m">>,
      <<"t", "h", "r", "o", "w", "a", "w", "a", "y", ".", "e", "m", "a", "i", "l">>,
      <<"t", "e", "m", "p", "-", "m", "a", "i", "l", ".", "o", "r", "g">>,
      <<"g", "e", "t", "a", "i", "r", "m", "a", "i", "l", ".", "c", "o", "m">>,
      <<"f", "a", "k", "e", "i", "n", "b", "o", "x", ".", "c", "o", "m">>,
      <<"s", "p", "a", "m", "g", "o", "u", "r", "m", "e", "t", ".", "c", "o", "m">> }

isDisposableEmail(domain) ==
    \E d \in disposableDomains : Contains(ToLowerCase(domain), d)

\* commonProviders of checkMXRecords
commonProviders ==
    { <<"g", "m", "a", "i", "l", ".", "c", "o", "m">>,
      <<"o", "u", "t", "l", "o", "o", "k", ".", "c", "o", "m">>,
      <<"y", "a", "h", "o", "o", ".", "c", "o", "m">>,
      <<"h", "o", "t", "m", "a", "i", "l", ".", "c", "o", "m">>,
      <<"a", "o", "l", ".", "c", "o", "m">>,
      <<"i", "c", "l", "o", "u", "d", ".", "c", "o", "m">>,
      <<"p", "r", "o", "t", "o", "n", "m", "a", "i", "l", ".", "c", "o", "m">>,
      <<"z", "o", "h", "o", ".", "c", "o", "m">>,
      <<"m", "a", "i", "l", ".", "c", "o", "m">> }

\* a fallback that knows no provider
IsNeverCommonProvider(domain) == FALSE

\* the fallback of checkMXRecords once every DNS provider has failed
IsCommonProvider(domain) ==
    \E provider \in commonProviders : Contains(ToLowerCase(domain), provider)

\* the keys of knownPatterns; each maps to /^[a-zA-Z0-9._%+-]+$/
knownPatterns ==
    { <<"g", "m", "a", "i", "l", ".", "c", "o", "m">>,
      <<"o", "u", "t", "l", "o", "o", "k", ".", "c", "o", "m">>,
      <<"y", "a", "h", "o", "o", ".", "c", "o", "m">>,
      <<"h", "o", "t", "m", "a", "i", "l", ".", "c", "o", "m">>,
      <<"a", "o", "l", ".", "c", "o", "m">>,
      <<"i", "c", "l", "o", "u", "d", ".", "c", "o", "m">> }

\* /^[a-zA-Z0-9._%+-]+$/
MatchesKnownLocal(localPart) ==
    /\ localPart # <<>>
    /\ \A i \in 1..Len(localPart) :
          IsAlnum(localPart[i]) \/ localPart[i] \in {".", "_", "%", "+", "-"}

\* /^[a-zA-Z0-9._-]+$/
MatchesCorporateBasic(localPart) ==
    /\ localPart # <<>>
    /\ \A i \in 1..Len(localPart) :
          IsAlnum(localPart[i]) \/ localPart[i] \in {".", "_", "-"}

\* /^[a-zA-Z]+\.[a-zA-Z]+$/
MatchesFirstDotLast(localPart) ==
    /\ Count(localPart, ".") = 1
    /\ IndexOf(localPart, ".") > 1
    /\ IndexOf(localPart, ".") < Len(localPart)
    /\ \A i \in 1..Len(localPart) : localPart[i] \in Letters \/ localPart[i] = "."

\* /^[a-zA-Z][a-zA-Z0-9._-]*$/
MatchesStartsWithLetter(localPart) ==
    /\ localPart # <<>>
    /\ localPart[1] \in Letters
    /\ \A i \in 1..Len(localPart) :
          IsAlnum(localPart[i]) \/ localPart[i] \in {".", "_", "-"}

\* strategy 1 of checkSMTPDeliverability: known provider patterns
KnownProviderMatch(localPart, domain) ==
    \E providerDomain \in knownPatterns :
        Contains(domain, providerDomain) /\ MatchesKnownLocal(localPart)

\* strategy 2: corporate domain heuristics
CorporateMatch(localPart, domain) ==
    /\ ~Contains(domain, <<"g", "m", "a", "i", "l">>)
    /\ ~Contains(domain, <<"y", "a", "h", "o", "o">>)
    /\ ~Contains(domain, <<"o", "u", "t", "l", "o", "o", "k">>)
    /\ \/ MatchesCorporateBasic(localPart)
       \/ MatchesFirstDotLast(localPart)
       \/ MatchesStartsWithLetter(localPart)

\* calculateStructureScore, in tenths
StructureScoreTenths(localPart, domain) ==
    LET n == Len(localPart)
        isSep(c) == c \in {".", "_", "-"}
        length == IF n >= 3 /\ n <= 20 THEN 2 ELSE 0
        letter == IF n >= 1 /\ localPart[1] \in Letters THEN 1 ELSE 0
        digits == IF \E i \in 1..(n - 3) :
                        \A j \in i..(i + 3) : localPart[j] \in Digits
                  THEN 0 ELSE 1
        dots == IF Contains(localPart, <<".", ".">>) THEN 0 ELSE 1
        seps == IF \E i \in 1..(n - 1) : isSep(localPart[i]) /\ isSep(localPart[i + 1])
                THEN 0 ELSE 1
        name == IF \E k \in 2..(n - 1) :
                      /\ isSep(localPart[k])
                      /\ \A j \in 1..n : j # k => localPart[j] \in Letters
                THEN 3 ELSE 0
        start == IF MatchesStartsWithLetter(localPart) THEN 2 ELSE 0
    IN Min(length + letter + digits + dots + seps + name + start, 10)

\* a scoring that gives the syntax check 25 points
ScoreOfHeavySyntax(checks) ==
    (IF checks.syntax THEN 25 ELSE 0)
    + (IF checks.disposable THEN 10 ELSE 0)
    + (IF checks.domain THEN 25 ELSE 0)
    + (IF checks.mx THEN 25 ELSE 0)
    + (IF checks.smtp THEN 25 ELSE 0)

\* a scoring that gives the domain and MX checks 5 points each
ScoreOfLightDomain(checks) ==
    (IF checks.syntax THEN 15 ELSE 0)
    + (IF checks.disposable THEN 10 ELSE 0)
    + (IF checks.domain THEN 5 ELSE 0)
    + (IF checks.mx THEN 5 ELSE 0)
    + (IF checks.smtp THEN 25 ELSE 0)

\* the scoring of verifyEmail
ScoreOf(checks) ==
    (IF checks.syntax THEN 15 ELSE 0)
    + (IF checks.disposable THEN 10 ELSE 0)
    + (IF checks.domain THEN 25 ELSE 0)
    + (IF checks.mx THEN 25 ELSE 0)
    + (IF checks.smtp THEN 25 ELSE 0)

\* result.isValid of verifyEmail
\* a validity that a disposable domain takes away
IsValidOfUnlessDisposable(score, checks) ==
    (score >= 50 \/ (checks.syntax /\ checks.mx)) /\ checks.disposable

IsValidOf(score, checks) == score >= 50 \/ (checks.syntax /\ checks.mx)

\* result.details.confidence of verifyEmail
ConfidenceOf(score, checks) ==
    IF score >= 85 THEN "high"
    ELSE IF score >= 50 \/ (checks.syntax /\ checks.mx) THEN "medium"
    ELSE "low"

\* ------------------------------------------------------------------------
\* crawl-domain: extraction and pattern detection
\* ------------------------------------------------------------------------
\* the ten well-known paths of searchEmails, by position:
\* '', /about, /team, /contact, /careers, /staff, /leadership, /management,
\* /directory, /people
commonPaths == <<1, 2, 3, 4, 5, 6, 7, 8, 9, 10>>

\* extractEmails; `matches` is what text.match(EMAIL_REGEX) found in the page
ExtractEmails(matches, domain) ==
    LET lowered == [i \in 1..Len(matches) |-> ToLowerCase(matches[i])]
        suffix == <<"@">> \o ToLowerCase(domain)
        own == SelectSeq(lowered, LAMBDA e : EndsWith(e, suffix))
    IN SelectSeq([i \in 1..Len(own) |-> [email |-> own[i], index |-> i]],
                 LAMBDA x : IndexOf(own, x.email) = x.index)

ExtractedAddresses(matches, domain) ==
    LET x == ExtractEmails(matches, domain)
    IN [i \in 1..Len(x) |-> x[i].email]

\* email.split('@')[0]
LocalPart(email) ==
    LET at == IndexOf(email, "@")
    IN IF at = 0 THEN email ELSE SubSeq(email, 1, at - 1)

P_FIRST_DOT_LAST == <<FIRST, ".", LAST>>
P_FIRST_US_LAST == <<FIRST, "_", LAST>>
P_FIRST_LAST == <<FIRST, LAST>>

\* the buckets detectNamePatterns pushes one address into, in code order
BucketsOf(email) ==
    LET localPart == LocalPart(email)
    IN (IF Includes(localPart, ".") /\ Count(localPart, ".") + 1 = 2
        THEN <<P_FIRST_DOT_LAST>> ELSE <<>>)
       \o
       (IF Includes(localPart, "_") /\ Count(localPart, "_") + 1 = 2
        THEN <<P_FIRST_US_LAST>> ELSE <<>>)
       \o
       (IF Len(localPart) > 1 /\ ~Includes(localPart, ".") /\ ~Includes(localPart, "_")
        THEN <<P_FIRST_LAST>> ELSE <<>>)

\* a confidence without the cap: samples.length / 3
UncappedThirds(n) == n

\* confidence is kept in thirds: the code's Math.min(samples.length / 3, 1)
\* is ConfidenceThirds / 3
ConfidenceThirds(n) == Min(n, 3)

\* detectNamePatterns: Object.entries in key-insertion order, then a stable
\* sort by descending confidence
DetectNamePatterns(emails, domain) ==
    LET keys == UniqueSeq(Flatten([i \in 1..Len(emails) |-> BucketsOf(emails[i])]))
        entry(k) == LET samples == SelectSeq(emails, LAMBDA e : Includes(BucketsOf(e), k))
                    IN [pattern |-> k,
                        confidence |-> ConfidenceThirds(Len(samples)),
                        samples |-> samples]
        entries == [i \in 1..Len(keys) |-> entry(keys[i])]
    IN SelectSeq(entries, LAMBDA e : e.confidence = 3)
       \o SelectSeq(entries, LAMBDA e : e.confidence = 2)
       \o SelectSeq(entries, LAMBDA e : e.confidence = 1)

\* ------------------------------------------------------------------------
\* The keyed record store (tables are sequences of rows)
\* ------------------------------------------------------------------------
\* outcomes of one awaited store or function call: applied, not applied with
\* an error in the returned result, not applied with an exception
Outcomes == {"ok", "error", "throw"}

\* found_emails.upsert with ignoreDuplicates: a conflicting row is kept as it is
UpsertFoundEmailIgnoringDuplicates(table, row) ==
    IF \E i \in 1..Len(table) :
           table[i].email_address = row.email_address /\ table[i].domain = row.domain
    THEN table
    ELSE Append(table, row)

\* found_emails.upsert(row, {onConflict: 'email_address,domain'})
UpsertFoundEmail(table, row) ==
    IF \E i \in 1..Len(table) :
           table[i].email_address = row.email_address /\ table[i].domain = row.domain
    THEN [i \in 1..Len(table) |->
             IF table[i].email_address = row.email_address /\ table[i].domain = row.domain
             THEN row ELSE table[i]]
    ELSE Append(table, row)

\* email_patterns.insert(row) without a conflict target
InsertEmailPattern(table, row) == Append(table, row)

\* email_patterns.upsert(row, {onConflict: 'domain,pattern'})
UpsertEmailPattern(table, row) ==
    IF \E i \in 1..Len(table) :
           table[i].pattern = row.pattern /\ table[i].domain = row.domain
    THEN [i \in 1..Len(table) |->
             IF table[i].pattern = row.pattern /\ table[i].domain = row.domain
             THEN row ELSE table[i]]
    ELSE Append(table, row)

\* crawl_sessions.update(fields).eq('domain', domain): every session of the
\* domain of session crawlSessionId
UpdateCrawlSessionsOfDomain(table, crawlSessionId, fields) ==
    [i \in 1..Len(table) |->
        IF \E k \in 1..Len(table) :
               table[k].id = crawlSessionId /\ table[k].domain = table[i].domain
        THEN [f \in DOMAIN table[i] |->
                 IF f \in DOMAIN fields THEN fields[f] ELSE table[i][f]]
        ELSE table[i]]

\* crawl_sessions.update(fields).eq('id', crawlSessionId)
UpdateCrawlSession(table, crawlSessionId, fields) ==
    [i \in 1..Len(table) |->
        IF table[i].id = crawlSessionId
        THEN [f \in DOMAIN table[i] |->
                 IF f \in DOMAIN fields THEN fields[f] ELSE table[i][f]]
        ELSE table[i]]

\* email_candidates.update({verification_status}).eq('email_address', e).eq('test_id', t)
UpdateCandidate(table, email, testId, status) ==
    [i \in 1..Len(table) |->
        IF table[i].email_address = email /\ table[i].test_id = testId
        THEN [table[i] EXCEPT !.verification_status = status]
        ELSE table[i]]

\* email_candidates.insert(candidates)
InsertCandidates(table, testId, emailCandidates) ==
    table \o [i \in 1..Len(emailCandidates) |->
                [test_id |-> testId,
                 email_address |-> emailCandidates[i].email,
                 email_pattern |-> emailCandidates[i].pattern,
                 verification_status |-> "pending"]]

\* tests.update({status}).eq('id', testId)
UpdateTestStatus(table, testId, status) ==
    [t \in DOMAIN table |->
        IF t = testId THEN [table[t] EXCEPT !.status = status] ELSE table[t]]

\* ------------------------------------------------------------------------
\* State
\* ------------------------------------------------------------------------
VARIABLES
    tests,             \* tests table: id -> row
    email_candidates,  \* email_candidates table
    found_emails,      \* found_emails table
    email_patterns,    \* email_patterns table
    crawl_sessions,    \* crawl_sessions table
    site,              \* what the crawled web site serves, per path
    gen,               \* generate-email-candidates requests and their background tasks
    crawl,             \* crawl-domain requests and their background tasks
    faults,            \* failed calls so far
    lastFound,         \* history: the last found_emails upsert applied, per key
    lastPattern,       \* history: the last email_patterns upsert applied, per key
    verify,            \* the verify-email-advanced request and its verifications
    email_test_results, \* email_test_results table
    delivery           \* the probe-send requests, the provider and the webhook

vars == <<tests, email_candidates, found_emails, email_patterns, crawl_sessions,
          site, gen, crawl, faults, lastFound, lastPattern, verify, email_test_results, delivery>>

storeVars == <<tests, email_candidates, found_emails, email_patterns, crawl_sessions>>

\* ------------------------------------------------------------------------
\* Inputs of the model
\* ------------------------------------------------------------------------
Str_x_c == <<"x", ".", "c">>
Addr_a_b == <<"a", ".", "b", "@", "x", ".", "c">>
Addr_A_B == <<"A", ".", "B", "@", "x", ".", "c">>
Addr_c_d == <<"c", "_", "d", "@", "x", ".", "c">>
Addr_ab == <<"a", "b", "@", "x", ".", "c">>
Addr_other == <<"a", ".", "b", "@", "y", ".", "c">>

TestIds == {"t1"}

\* the persons a Test is created for (first_name, last_name), as typed
People == { [first |-> <<"J">>, last |-> <<"D">>] }

\* web sites: the regular-expression matches of each page, by path position
EmptySite == [p \in 1..Len(commonPaths) |-> <<>>]

Sites == { EmptySite,
           [EmptySite EXCEPT ![2] = <<Addr_a_b, Addr_A_B, Addr_other>>,
                             ![3] = <<Addr_a_b, Addr_c_d>>],
           [EmptySite EXCEPT ![1] = <<Addr_ab>>, ![4] = <<Addr_a_b>>] }

TestSites == { EmptySite, [EmptySite EXCEPT ![2] = <<Addr_c_d>>] }

\* names as typed into the test-creation form (1 to 50 characters of any kind)
GenFirstNames == { <<"J">>, <<"J", ".">>, <<"A", " ", "b">>, <<"j", "o">> }

GenLastNames == { <<"D">>, <<"J">>, <<"d", "e">> }

\* domains the form accepts; a single label passes its pattern
GenDomains == { Str_x_c, <<"x">> }

\* email_patterns tables crawls of x.c leave behind (confidence in thirds)
DetectedTables ==
    { <<>>,
      << [domain |-> Str_x_c, pattern |-> <<"{first}", ".", "{last}">>,
          confidence_score |-> 3, sample_count |-> 3] >>,
      << [domain |-> Str_x_c, pattern |-> <<"{first}", "_", "{last}">>,
          confidence_score |-> 1, sample_count |-> 1],
         [domain |-> Str_x_c, pattern |-> <<"{first}", "{last}">>,
          confidence_score |-> 1, sample_count |-> 1] >> }

\* addresses of x.c a crawl can have collected (lower-cased by extractEmails)
DetectAddresses ==
    { Addr_a_b, Addr_c_d,
      <<"c", ".", "d", "@", "x", ".", "c">>,
      <<"e", ".", "f", "@", "x", ".", "c">>,
      <<"a", ".", "b", "_", "c", "@", "x", ".", "c">>,
      <<"a", ".", "b", ".", "c", "@", "x", ".", "c">>,
      Addr_ab }

\* the lists allEmails of a crawl, up to MaxSamples addresses; an address
\* found on several pages is in the list several times
SampleLists ==
    UNION { [1..n -> DetectAddresses] : n \in 0..MaxSamples }

\* ------------------------------------------------------------------------
\* Process records
\* ------------------------------------------------------------------------
IdleCrawl ==
    [pc |-> "idle", domain |-> <<>>, crawlSessionId |-> 0, pathIdx |-> 1,
     crawlResults |-> <<>>, ri |-> 1, ei |-> 1, allEmails |-> <<>>,
     totalEmailsFound |-> 0, detectedPatterns |-> <<>>, pi |-> 1,
     patternsStored |-> 0,
     \* history of the task: table rows its upserts added, upserts that
     \* were not applied, the crawls that had ended when it was started
     \* and the paths whose fetch failed
     newRows |-> 0, storeFaults |-> 0, doneBefore |-> {}, failedFetches |-> {}]

IdleGen ==
    [pc |-> "idle", response |-> "none", testId |-> "", test |-> <<>>,
     existingPatterns |-> 0, patterns |-> <<>>, emailCandidates |-> <<>>,
     idx |-> 1, insertFailed |-> FALSE]

\* the verify-email-advanced request before it arrives
IdleVerify ==
    [pc |-> "idle", isArray |-> TRUE, emails |-> <<>>, i |-> 0, tasks |-> <<>>,
     results |-> <<>>, response |-> "none",
     summary |-> [total |-> 0, valid |-> 0, high_confidence |-> 0,
                  medium_confidence |-> 0, low_confidence |-> 0]]

\* a send-test-email or test-real-delivery request before it arrives;
\* attempts is the history of what the mail API did with each send,
\* statusBefore the status of the candidate when the send was requested
IdleSend ==
    [pc |-> "idle", fn |-> "none", caller |-> "none", testEmail |-> <<>>,
     testId |-> "", candidateId |-> 0, attempts |-> <<>>, emailResponse |-> "none",
     messageId |-> 0, response |-> "none", statusBefore |-> "none"]

NoEvent ==
    [type |-> "none", email_id |-> 0, to |-> <<>>, bounce_type |-> "none",
     bounce_reason |-> "none"]

\* sends: the requests; clock: what new Date() returns next in the webhook
\* (the timestamps of the send functions are not modelled); nextId: the
\* provider's next message id; sent: the messages the provider accepted;
\* delivered, lastEvent, hooks: history of the webhook (the messages with
\* an ingested delivered event, the event ingested by the last step, the
\* number of events)
IdleDelivery ==
    [sends |-> [s \in 1..MaxSends |-> IdleSend], clock |-> 1, nextId |-> 1,
     sent |-> {}, delivered |-> {}, lastEvent |-> NoEvent, hooks |-> 0]

InitWith(people, sites) ==
    /\ \E person \in people :
          tests = [t \in TestIds |->
                     [status |-> "pending", first_name |-> person.first,
                      last_name |-> person.last, domain |-> Str_x_c]]
    /\ email_candidates = <<>>
    /\ found_emails = <<>>
    /\ email_patterns = <<>>
    /\ crawl_sessions = <<>>
    /\ site \in sites
    /\ gen = [r \in 1..MaxTriggers |-> IdleGen]
    /\ crawl = [c \in 1..MaxCrawls |-> IdleCrawl]
    /\ faults = 0
    /\ lastFound = {}
    /\ lastPattern = {}
    /\ verify = IdleVerify
    /\ email_test_results = <<>>
    /\ delivery = IdleDelivery

\* the Test pipeline starts with a pending Test and a site of at most one page
Init == InitWith(People, TestSites)

\* the crawl pipeline starts with any of the sites
InitCrawl == InitWith({[first |-> <<"J">>, last |-> <<"D">>]}, Sites)

\* a call's outcome o is charged to the fault budget unless it is "ok"
Charge(o) ==
    IF o = "ok" THEN faults' = faults
    ELSE faults < MaxFaults /\ faults' = faults + 1

FirstIdleCrawl(c) ==
    /\ crawl[c].pc = "idle"
    /\ \A d \in 1..(c - 1) : crawl[d].pc # "idle"

FirstIdleGen(r) ==
    /\ gen[r].pc = "idle"
    /\ \A q \in 1..(r - 1) : gen[q].pc # "idle"

CrawlsDone == {d \in 1..MaxCrawls : crawl[d].pc = "done"}

\* ------------------------------------------------------------------------
\* crawl-domain: request handler
\* ------------------------------------------------------------------------
\* a handler that inserts the session row before it looks at the domain
CrawlDomainHandlerInsertingFirst(c, domain, o) ==
    IF o = "ok"
    THEN LET id == Len(crawl_sessions) + 1
         IN /\ crawl_sessions' = Append(crawl_sessions,
                   [id |-> id, domain |-> domain, status |-> "crawling",
                    pages_crawled |-> 0, emails_found |-> 0,
                    patterns_detected |-> 0, error_message |-> "none"])
            /\ crawl' = [crawl EXCEPT ![c] =
                   IF domain = <<>> THEN [@ EXCEPT !.pc = "resp400"]
                   ELSE [IdleCrawl EXCEPT !.pc = "search", !.domain = domain,
                                          !.crawlSessionId = id,
                                          !.doneBefore = CrawlsDone]]
    ELSE /\ crawl' = [crawl EXCEPT ![c].pc = "resp500"]
         /\ crawl_sessions' = crawl_sessions

\* the handler on slot c: reject a missing domain, insert the session row,
\* start performCrawl
CrawlDomainHandler(c, domain, o) ==
    IF domain = <<>>
    THEN /\ o = "ok"
         /\ crawl' = [crawl EXCEPT ![c].pc = "resp400"]
         /\ crawl_sessions' = crawl_sessions
    ELSE IF o = "ok"
    THEN LET id == Len(crawl_sessions) + 1
         IN /\ crawl_sessions' = Append(crawl_sessions,
                   [id |-> id, domain |-> domain, status |-> "crawling",
                    pages_crawled |-> 0, emails_found |-> 0,
                    patterns_detected |-> 0, error_message |-> "none"])
            /\ crawl' = [crawl EXCEPT ![c] =
                   [IdleCrawl EXCEPT !.pc = "search", !.domain = domain,
                                     !.crawlSessionId = id,
                                     !.doneBefore = CrawlsDone]]
    ELSE /\ crawl' = [crawl EXCEPT ![c].pc = "resp500"]
         /\ crawl_sessions' = crawl_sessions

StartCrawl(c, domain, o) ==
    /\ FirstIdleCrawl(c)
    /\ Charge(o)
    /\ CrawlDomainHandler(c, domain, o)
    /\ UNCHANGED <<tests, email_candidates, found_emails, email_patterns,
                   site, gen, lastFound, lastPattern, verify, email_test_results, delivery>>

\* ------------------------------------------------------------------------
\* crawl-domain: performCrawl, the detached background task
\* ------------------------------------------------------------------------
\* where the task goes once the found_emails loop is over: detectNamePatterns
\* runs on allEmails, then the email_patterns loop or the final update
AfterStoreLoop(task) ==
    LET detected == DetectNamePatterns(task.allEmails, task.domain)
    IN [task EXCEPT !.detectedPatterns = detected, !.pi = 1,
                    !.patternsStored = 0,
                    !.pc = IF detected = <<>> THEN "finish" ELSE "patterns"]

\* crawlWebpage: the addresses of one page; a non-2xx answer or a fetch
\* exception (path in failed) gives none
CrawlWebpage(pages, path, domain, failed) ==
    [emails |-> IF path \in failed THEN <<>>
                ELSE ExtractedAddresses(pages[path], domain),
     source |-> path, type |-> "webpage"]

\* searchEmails: every path in list order, keeping the results with addresses
RECURSIVE SearchEmailsFrom(_, _, _, _)
SearchEmailsFrom(pages, k, domain, failed) ==
    IF k > Len(commonPaths) THEN <<>>
    ELSE LET result == CrawlWebpage(pages, commonPaths[k], domain, failed)
             rest == SearchEmailsFrom(pages, k + 1, domain, failed)
         IN IF Len(result.emails) > 0 THEN <<result>> \o rest ELSE rest

\* a loop that a failed fetch ends: the paths before the first failed one
SearchEmailsUntilFailure(pages, domain, failed) ==
    LET stop == IF failed = {} THEN Len(commonPaths) + 1
                ELSE CHOOSE k \in 1..Len(commonPaths) :
                        /\ commonPaths[k] \in failed
                        /\ \A j \in 1..(k - 1) : commonPaths[j] \notin failed
    IN SelectSeq(SearchEmailsFrom(pages, 1, domain, {}),
                 LAMBDA result : IndexOf(commonPaths, result.source) < stop)

SearchEmails(pages, domain, failed) == SearchEmailsFrom(pages, 1, domain, failed)

\* the sets of paths whose fetch may fail; failing on a page without any
\* address match gives the same result as fetching it, so the paths that
\* serve matches are the ones enumerated
FailedFetches == SUBSET {p \in Range(commonPaths) : site[p] # <<>>}

\* performCrawl up to the first store call: searchEmails(domain)
SearchStep(c) ==
    /\ crawl[c].pc = "search"
    /\ \E failed \in FailedFetches :
          LET task == crawl[c]
              results == SearchEmails(site, task.domain, failed)
              moved == [task EXCEPT !.crawlResults = results,
                                    !.pathIdx = Len(commonPaths) + 1,
                                    !.failedFetches = failed]
          IN crawl' = [crawl EXCEPT ![c] =
                 IF results = <<>> THEN AfterStoreLoop(moved)
                 ELSE [moved EXCEPT !.pc = "store", !.ri = 1, !.ei = 1]]
    /\ UNCHANGED <<storeVars, site, gen, faults, lastFound, lastPattern, verify, email_test_results, delivery>>

SameFoundKey(a, b) == a.email_address = b.email_address /\ a.domain = b.domain

SamePatternKey(a, b) == a.pattern = b.pattern /\ a.domain = b.domain

\* one iteration of the found_emails loop of performCrawl
StoreStep(c, o) ==
    /\ crawl[c].pc = "store"
    /\ Charge(o)
    /\ LET task == crawl[c]
           result == task.crawlResults[task.ri]
           email == result.emails[task.ei]
           row == [domain |-> task.domain, email_address |-> email,
                   source_url |-> result.source, source_type |-> result.type]
           counted == IF o = "throw" THEN task
                      ELSE [task EXCEPT !.allEmails = Append(@, email),
                                        !.totalEmailsFound = @ + 1]
           noted == [counted EXCEPT
                        !.newRows = @ + Len(found_emails') - Len(found_emails),
                        !.storeFaults = IF o = "ok" THEN @ ELSE @ + 1]
           lastOfResult == task.ei = Len(result.emails)
           lastResult == task.ri = Len(task.crawlResults)
       IN /\ found_emails' = IF o = "ok" THEN UpsertFoundEmail(found_emails, row)
                             ELSE found_emails
          /\ lastFound' = IF o = "ok"
                          THEN {x \in lastFound : ~SameFoundKey(x, row)} \cup {row}
                          ELSE lastFound
          /\ crawl' = [crawl EXCEPT ![c] =
                 IF ~lastOfResult THEN [noted EXCEPT !.ei = @ + 1]
                 ELSE IF ~lastResult THEN [noted EXCEPT !.ri = @ + 1, !.ei = 1]
                 ELSE AfterStoreLoop(noted)]
    /\ UNCHANGED <<tests, email_candidates, email_patterns, crawl_sessions,
                   site, gen, lastPattern, verify, email_test_results, delivery>>

\* one iteration of the email_patterns loop of performCrawl
PatternStep(c, o) ==
    /\ crawl[c].pc = "patterns"
    /\ Charge(o)
    /\ LET task == crawl[c]
           d == task.detectedPatterns[task.pi]
           row == [domain |-> task.domain, pattern |-> d.pattern,
                   confidence_score |-> d.confidence,
                   sample_count |-> Len(d.samples)]
           counted == IF o = "throw" THEN task
                      ELSE [task EXCEPT !.patternsStored = @ + 1]
           noted == [counted EXCEPT
                        !.newRows = @ + Len(email_patterns') - Len(email_patterns),
                        !.storeFaults = IF o = "ok" THEN @ ELSE @ + 1]
       IN /\ email_patterns' = IF o = "ok" THEN UpsertEmailPattern(email_patterns, row)
                               ELSE email_patterns
          /\ lastPattern' = IF o = "ok"
                            THEN {x \in lastPattern : ~SamePatternKey(x, row)} \cup {row}
                            ELSE lastPattern
          /\ crawl' = [crawl EXCEPT ![c] =
                 IF task.pi < Len(task.detectedPatterns)
                 THEN [noted EXCEPT !.pi = @ + 1]
                 ELSE [noted EXCEPT !.pc = "finish"]]
    /\ UNCHANGED <<tests, email_candidates, found_emails, crawl_sessions,
                   site, gen, lastFound, verify, email_test_results, delivery>>

\* the final crawl_sessions update of performCrawl
FinishStep(c, o) ==
    /\ crawl[c].pc = "finish"
    /\ Charge(o)
    /\ LET task == crawl[c]
       IN /\ crawl_sessions' =
                 IF o = "ok"
                 THEN UpdateCrawlSession(crawl_sessions, task.crawlSessionId,
                          [status |-> "completed",
                           emails_found |-> task.totalEmailsFound,
                           patterns_detected |-> task.patternsStored,
                           pages_crawled |-> Len(task.crawlResults)])
                 ELSE crawl_sessions
          /\ crawl' = [crawl EXCEPT ![c].pc = IF o = "throw" THEN "catch" ELSE "done"]
    /\ UNCHANGED <<tests, email_candidates, found_emails, email_patterns,
                   site, gen, lastFound, lastPattern, verify, email_test_results, delivery>>

\* the catch block of performCrawl
CatchStep(c, o) ==
    /\ crawl[c].pc = "catch"
    /\ Charge(o)
    /\ crawl_sessions' =
           IF o = "ok"
           THEN UpdateCrawlSession(crawl_sessions, crawl[c].crawlSessionId,
                    [status |-> "failed", error_message |-> "error"])
           ELSE crawl_sessions
    /\ crawl' = [crawl EXCEPT ![c].pc = "done"]
    /\ UNCHANGED <<tests, email_candidates, found_emails, email_patterns,
                   site, gen, lastFound, lastPattern, verify, email_test_results, delivery>>

CrawlTaskStep(c) ==
    \/ SearchStep(c)
    \/ \E o \in Outcomes : StoreStep(c, o)
    \/ \E o \in Outcomes : PatternStep(c, o)
    \/ \E o \in Outcomes : FinishStep(c, o)
    \/ \E o \in Outcomes : CatchStep(c, o)

\* ------------------------------------------------------------------------
\* generate-email-candidates: request handler
\* ------------------------------------------------------------------------
RowsOfDomain(table, domain) == SelectSeq(table, LAMBDA row : row.domain = domain)

\* .order('confidence_score', {ascending: false}).limit(10): every order of
\* the rows that is descending in confidence (rows of equal confidence come
\* back in an order the store picks), cut to ten rows
OrderedSelections(rows) ==
    LET n == Len(rows)
        perms == {p \in [1..n -> 1..n] :
                     /\ \A i, j \in 1..n : i # j => p[i] # p[j]
                     /\ \A i, j \in 1..n :
                            i < j => rows[p[i]].confidence_score >= rows[p[j]].confidence_score}
    IN {[i \in 1..Min(n, 10) |-> rows[p[i]]] : p \in perms}

\* a getEmailPatterns that adds the whole library to the detected patterns
GetEmailPatternsWholeLibrary(selected, failed, library) ==
    IF failed THEN library
    ELSE UniqueSeq([i \in 1..Len(selected) |-> selected[i].pattern] \o library)

\* getEmailPatterns: selected is the answer of the ordered select, failed
\* tells that the select returned an error or threw
GetEmailPatterns(selected, failed, library) ==
    IF failed THEN library
    ELSE IF Len(selected) > 0
    THEN LET detectedPatterns == [i \in 1..Len(selected) |-> selected[i].pattern]
         IN UniqueSeq(detectedPatterns \o SubSeq(library, 1, Min(5, Len(library))))
    ELSE library

Respond(req, code) == [req EXCEPT !.response = code, !.pc = "done"]

\* req.json(), the testId check and the select of the test row
GenTrigger(r, testId, o) ==
    /\ FirstIdleGen(r)
    /\ IF testId = "" THEN o = "ok" /\ faults' = faults ELSE Charge(o)
    /\ gen' = [gen EXCEPT ![r] =
           IF testId = "" THEN Respond([@ EXCEPT !.testId = testId], "400")
           ELSE IF o = "throw" THEN Respond([@ EXCEPT !.testId = testId], "500")
           ELSE IF o = "error" \/ testId \notin DOMAIN tests
           THEN Respond([@ EXCEPT !.testId = testId], "404")
           ELSE [@ EXCEPT !.testId = testId, !.test = tests[testId],
                          !.pc = "setGenerating"]]
    /\ UNCHANGED <<storeVars, site, crawl, lastFound, lastPattern, verify, email_test_results, delivery>>

\* tests.update({status: 'generating'})
GenSetGenerating(r, o) ==
    /\ gen[r].pc = "setGenerating"
    /\ Charge(o)
    /\ tests' = IF o = "ok" THEN UpdateTestStatus(tests, gen[r].testId, "generating")
                ELSE tests
    /\ gen' = [gen EXCEPT ![r] =
           IF o = "throw" THEN Respond(@, "500") ELSE [@ EXCEPT !.pc = "selectPatterns"]]
    /\ UNCHANGED <<email_candidates, found_emails, email_patterns, crawl_sessions,
                   site, crawl, lastFound, lastPattern, verify, email_test_results, delivery>>

\* the select of existingPatterns
GenSelectPatterns(r, o) ==
    /\ gen[r].pc = "selectPatterns"
    /\ Charge(o)
    /\ LET n == IF o = "ok" THEN Len(RowsOfDomain(email_patterns, gen[r].test.domain))
                ELSE 0
       IN gen' = [gen EXCEPT ![r] =
              IF o = "throw" THEN Respond(@, "500")
              ELSE [@ EXCEPT !.existingPatterns = n,
                             !.pc = IF n = 0 THEN "invokeCrawl" ELSE "generate"]]
    /\ UNCHANGED <<storeVars, site, crawl, lastFound, lastPattern, verify, email_test_results, delivery>>

\* the handlers have started fewer crawls than the model allows
CanInvokeCrawl ==
    Cardinality({c \in 1..MaxCrawls : crawl[c].pc # "idle"}) < Min(MaxInvokedCrawls, MaxCrawls)

\* supabase.functions.invoke('crawl-domain'): the crawl handler runs and
\* starts a crawl (ok), or the call fails; the answer is not looked at.
\* Once the model's number of invoked crawls is used up the call fails.
GenInvokeCrawl(r, o) ==
    /\ gen[r].pc = "invokeCrawl"
    /\ IF CanInvokeCrawl THEN Charge(o) ELSE o = "error" /\ faults' = faults
    /\ IF o = "ok"
       THEN \E c \in 1..MaxCrawls :
               /\ FirstIdleCrawl(c)
               /\ CrawlDomainHandler(c, gen[r].test.domain, "ok")
       ELSE UNCHANGED <<crawl, crawl_sessions>>
    /\ gen' = [gen EXCEPT ![r].pc = "generate"]
    /\ UNCHANGED <<tests, email_candidates, found_emails, email_patterns,
                   site, lastFound, lastPattern, verify, email_test_results, delivery>>

\* generateEmailPermutations with DEFAULT_EMAIL_PATTERNS = library:
\* getEmailPatterns, expansion, dedupe
GenGenerateWith(r, o, library) ==
    /\ gen[r].pc = "generate"
    /\ Charge(o)
    /\ \E selected \in OrderedSelections(RowsOfDomain(email_patterns, gen[r].test.domain)) :
          LET test == gen[r].test
              patterns == GetEmailPatterns(selected, o # "ok", library)
          IN gen' = [gen EXCEPT ![r] =
                 [@ EXCEPT !.patterns = patterns,
                           !.emailCandidates =
                               GenerateEmailPermutations(test.first_name, test.last_name,
                                                         test.domain, patterns),
                           !.pc = "insert"]]
    /\ UNCHANGED <<storeVars, site, crawl, lastFound, lastPattern, verify, email_test_results, delivery>>

\* the call in the Test pipeline model, on the leading part of the library
GenGenerate(r, o) == GenGenerateWith(r, o, Library)

\* the call on the whole library
GenGenerateFull(r, o) == GenGenerateWith(r, o, DEFAULT_EMAIL_PATTERNS)

\* email_candidates.insert(candidates); an insertError is thrown to the
\* handler's catch, which answers 500
GenInsert(r, o) ==
    /\ gen[r].pc = "insert"
    /\ Charge(o)
    /\ email_candidates' =
           IF o = "ok"
           THEN InsertCandidates(email_candidates, gen[r].testId, gen[r].emailCandidates)
           ELSE email_candidates
    /\ gen' = [gen EXCEPT ![r] =
           IF o = "ok" THEN [@ EXCEPT !.pc = "setVerifying"]
           ELSE Respond([@ EXCEPT !.insertFailed = (o = "error")], "500")]
    /\ UNCHANGED <<tests, found_emails, email_patterns, crawl_sessions,
                   site, crawl, lastFound, lastPattern, verify, email_test_results, delivery>>

\* tests.update({status: 'verifying'}), then EdgeRuntime.waitUntil(...) and
\* the 200 answer
GenSetVerifying(r, o) ==
    /\ gen[r].pc = "setVerifying"
    /\ Charge(o)
    /\ tests' = IF o = "ok" THEN UpdateTestStatus(tests, gen[r].testId, "verifying")
                ELSE tests
    /\ gen' = [gen EXCEPT ![r] =
           IF o = "throw" THEN Respond(@, "500")
           ELSE [@ EXCEPT !.response = "200", !.pc = "bgInvoke"]]
    /\ UNCHANGED <<email_candidates, found_emails, email_patterns, crawl_sessions,
                   site, crawl, lastFound, lastPattern, verify, email_test_results, delivery>>

\* ------------------------------------------------------------------------
\* generate-email-candidates: verifyEmailCandidatesUsingAdvancedAPI, the
\* detached background task
\* ------------------------------------------------------------------------
BulkOutcomes == Outcomes \cup {"noresults"}

\* supabase.functions.invoke('verify-email-advanced', {emails})
BgInvoke(r, o) ==
    /\ gen[r].pc = "bgInvoke"
    /\ Charge(o)
    /\ gen' = [gen EXCEPT ![r] =
           IF o # "ok" THEN [@ EXCEPT !.pc = "bgCatch"]
           ELSE IF @.emailCandidates = <<>> THEN [@ EXCEPT !.pc = "bgComplete"]
           ELSE [@ EXCEPT !.pc = "bgUpdate", !.idx = 1]]
    /\ UNCHANGED <<storeVars, site, crawl, lastFound, lastPattern, verify, email_test_results, delivery>>

\* one iteration of the result loop: the candidate update for results[idx]
BgUpdate(r, o, isValid) ==
    /\ gen[r].pc = "bgUpdate"
    /\ Charge(o)
    /\ LET email == gen[r].emailCandidates[gen[r].idx].email
           status == IF isValid THEN "valid" ELSE "invalid"
       IN email_candidates' =
              IF o = "ok"
              THEN UpdateCandidate(email_candidates, email, gen[r].testId, status)
              ELSE email_candidates
    /\ gen' = [gen EXCEPT ![r] =
           IF @.idx < Len(@.emailCandidates) THEN [@ EXCEPT !.idx = @ + 1]
           ELSE [@ EXCEPT !.pc = "bgComplete"]]
    /\ UNCHANGED <<tests, found_emails, email_patterns, crawl_sessions,
                   site, crawl, lastFound, lastPattern, verify, email_test_results, delivery>>

\* tests.update({status: 'completed'})
BgComplete(r, o) ==
    /\ gen[r].pc = "bgComplete"
    /\ Charge(o)
    /\ tests' = IF o = "ok" THEN UpdateTestStatus(tests, gen[r].testId, "completed")
                ELSE tests
    /\ gen' = [gen EXCEPT ![r].pc = IF o = "throw" THEN "bgCatch" ELSE "done"]
    /\ UNCHANGED <<email_candidates, found_emails, email_patterns, crawl_sessions,
                   site, crawl, lastFound, lastPattern, verify, email_test_results, delivery>>

\* the catch block: tests.update({status: 'failed'})
BgCatch(r, o) ==
    /\ gen[r].pc = "bgCatch"
    /\ Charge(o)
    /\ tests' = IF o = "ok" THEN UpdateTestStatus(tests, gen[r].testId, "failed")
                ELSE tests
    /\ gen' = [gen EXCEPT ![r].pc = "done"]
    /\ UNCHANGED <<email_candidates, found_emails, email_patterns, crawl_sessions,
                   site, crawl, lastFound, lastPattern, verify, email_test_results, delivery>>

VerifyTaskStep(r) ==
    \/ \E o \in BulkOutcomes : BgInvoke(r, o)
    \/ \E o \in Outcomes, isValid \in BOOLEAN : BgUpdate(r, o, isValid)
    \/ \E o \in Outcomes : BgComplete(r, o)
    \/ \E o \in Outcomes : BgCatch(r, o)

GenHandlerStep(r) ==
    \/ \E t \in TestIds \cup {"", "tX"}, o \in Outcomes : GenTrigger(r, t, o)
    \/ \E o \in Outcomes : GenSetGenerating(r, o)
    \/ \E o \in Outcomes : GenSelectPatterns(r, o)
    \/ \E o \in Outcomes : GenInvokeCrawl(r, o)
    \/ \E o \in Outcomes : GenGenerate(r, o)
    \/ \E o \in Outcomes : GenInsert(r, o)
    \/ \E o \in Outcomes : GenSetVerifying(r, o)

\* ------------------------------------------------------------------------
\* The crawl pipeline on its own
\* ------------------------------------------------------------------------
CrawlDomains == {Str_x_c, <<>>}

NextCrawl ==
    \/ \E c \in 1..MaxCrawls, d \in CrawlDomains, o \in Outcomes : StartCrawl(c, d, o)
    \/ \E c \in 1..MaxCrawls : CrawlTaskStep(c)

SpecCrawl == InitCrawl /\ [][NextCrawl]_vars

\* ------------------------------------------------------------------------
\* The Test pipeline: triggers, their background verification and the crawls
\* they start
\* ------------------------------------------------------------------------
Next ==
    \/ \E r \in 1..MaxTriggers : GenHandlerStep(r)
    \/ \E r \in 1..MaxTriggers : VerifyTaskStep(r)
    \/ \E c \in 1..MaxCrawls : CrawlTaskStep(c)

Spec == Init /\ [][Next]_vars

\* ------------------------------------------------------------------------
\* The candidate generator on its own: a handler that has read its Test and
\* is about to call generateEmailPermutations, then inserts the candidates
\* ------------------------------------------------------------------------
InitGenerator ==
    /\ \E first \in GenFirstNames, last \in GenLastNames, domain \in GenDomains :
          LET test == [status |-> "generating", first_name |-> first,
                       last_name |-> last, domain |-> domain]
          IN /\ tests = [t \in TestIds |-> test]
             /\ gen = [r \in 1..MaxTriggers |->
                          IF r = 1
                          THEN [IdleGen EXCEPT !.pc = "generate", !.testId = "t1",
                                               !.test = test]
                          ELSE IdleGen]
    /\ email_patterns \in DetectedTables
    /\ lastPattern = Range(email_patterns)
    /\ email_candidates = <<>>
    /\ found_emails = <<>>
    /\ crawl_sessions = <<>>
    /\ site = EmptySite
    /\ crawl = [c \in 1..MaxCrawls |-> IdleCrawl]
    /\ faults = 0
    /\ lastFound = {}
    /\ verify = IdleVerify
    /\ email_test_results = <<>>
    /\ delivery = IdleDelivery

NextGenerator ==
    \/ \E r \in 1..MaxTriggers, o \in Outcomes : GenGenerateFull(r, o)
    \/ \E r \in 1..MaxTriggers, o \in Outcomes : GenInsert(r, o)

SpecGenerator == InitGenerator /\ [][NextGenerator]_vars

\* ------------------------------------------------------------------------
\* The pattern detector on its own: a crawl whose found_emails loop has
\* collected allEmails calls detectNamePatterns and stores the patterns
\* ------------------------------------------------------------------------
InitDetect ==
    /\ \E emails \in SampleLists :
          crawl = [c \in 1..MaxCrawls |->
                      IF c = 1
                      THEN [IdleCrawl EXCEPT !.pc = "detect", !.domain = Str_x_c,
                                             !.crawlSessionId = 1,
                                             !.allEmails = emails,
                                             !.totalEmailsFound = Len(emails)]
                      ELSE IdleCrawl]
    /\ crawl_sessions = << [id |-> 1, domain |-> Str_x_c, status |-> "crawling",
                            pages_crawled |-> 0, emails_found |-> 0,
                            patterns_detected |-> 0, error_message |-> "none"] >>
    /\ \E person \in People :
          tests = [t \in TestIds |->
                     [status |-> "pending", first_name |-> person.first,
                      last_name |-> person.last, domain |-> Str_x_c]]
    /\ email_candidates = <<>>
    /\ found_emails = <<>>
    /\ email_patterns = <<>>
    /\ site = EmptySite
    /\ gen = [r \in 1..MaxTriggers |-> IdleGen]
    /\ faults = 0
    /\ lastFound = {}
    /\ lastPattern = {}
    /\ verify = IdleVerify
    /\ email_test_results = <<>>
    /\ delivery = IdleDelivery

\* const detectedPatterns = detectNamePatterns(allEmails, domain)
DetectStep(c) ==
    /\ crawl[c].pc = "detect"
    /\ crawl' = [crawl EXCEPT ![c] = AfterStoreLoop(crawl[c])]
    /\ UNCHANGED <<storeVars, site, gen, faults, lastFound, lastPattern, verify, email_test_results, delivery>>

NextDetect ==
    \/ \E c \in 1..MaxCrawls : DetectStep(c)
    \/ \E c \in 1..MaxCrawls, o \in Outcomes : PatternStep(c, o)

SpecDetect == InitDetect /\ [][NextDetect]_vars

\* ------------------------------------------------------------------------
\* verify-email-advanced: verifyEmail and the request handler
\* ------------------------------------------------------------------------
batchSize == 3

Email_a_b == <<"a", ".", "b", "@", "x", ".", "c">>
Email_not == <<"n", "o", "t", "-", "a", "n", "-", "e", "m", "a", "i", "l">>
Email_plus == <<"+", "a", "b", "@", "m", "a", "i", "l", "i", "n", "a", "t", "o", "r", ".", "c", "o", "m">>
Email_gmail == <<"a", "@", "g", "m", "a", "i", "l", ".", "c", "o", "m">>
Email_dots == <<"j", ".", ".", "d", "@", "x", ".", "c">>
Email_a_plus_b == <<"a", "+", "b", "@", "x", ".", "c">>
Email_aol == <<"a", "@", "a", "o", "l", ".", "c", "o", "m">>

\* the bodies { emails } of the requests: nothing or something that is not
\* an array, and arrays of addresses of at most two batches
VerifyEmailLists ==
    { <<>>, <<Email_a_b>>, <<Email_not>>, <<Email_plus>>, <<Email_gmail>>,
      <<Email_dots>>, <<Email_a_plus_b>>, <<Email_aol, Email_a_plus_b>>,
      <<Email_dots, Email_a_b, Email_plus, Email_gmail>>,
      <<Email_a_b, Email_gmail, Email_a_plus_b, Email_plus>> }

VerifyRequests ==
    {[isArray |-> FALSE, emails |-> <<>>]}
    \cup {[isArray |-> TRUE, emails |-> l] : l \in VerifyEmailLists}

\* what a DNS-over-HTTPS query resolves to: -1 for a failed fetch or a
\* response that is not ok, otherwise the number of MX records of the answer
MxAnswers == {-1, 0, 1, 4}

dnsProviders == <<"Cloudflare", "Google", "Quad9">>

\* email.split('@')[1].toLowerCase() and email.split('@')[0]
DomainOf(email) == ToLowerCase(Split(email, "@")[2])

LocalPartOf(email) == Split(email, "@")[1]

\* the result object verifyEmail starts from; details.mxRecords is the
\* number of records, details.provider and details.smtpResponse name the
\* kind of value the code writes
NewResult(email) ==
    [email |-> email, isValid |-> FALSE, score |-> 0,
     checks |-> [syntax |-> FALSE, domain |-> FALSE, mx |-> FALSE,
                 smtp |-> FALSE, catchAll |-> FALSE, disposable |-> FALSE],
     details |-> [confidence |-> "low", mxRecords |-> 0, provider |-> "none",
                  smtpResponse |-> "none"]]

\* the result the handler's .catch builds when verifyEmail rejects
BatchFallback(email) ==
    [email |-> email, isValid |-> VerifyValidateEmailSyntax(email),
     score |-> IF VerifyValidateEmailSyntax(email) THEN 50 ELSE 0,
     checks |-> [syntax |-> VerifyValidateEmailSyntax(email), domain |-> FALSE,
                 mx |-> FALSE, smtp |-> FALSE, catchAll |-> FALSE,
                 disposable |-> TRUE],
     details |-> [confidence |-> "low", mxRecords |-> 0, provider |-> "none",
                  smtpResponse |-> "Error during verification"]]

\* a verification that has settled with a result; path tells which code
\* built the result
Settled(task, result, path) ==
    [task EXCEPT !.pc = "done", !.result = result, !.path = path]

\* score, isValid and confidence of verifyEmail, then return result
Scored(task, result) ==
    LET score == ScoreOf(result.checks)
    IN Settled(task,
               [result EXCEPT !.score = score,
                              !.isValid = IsValidOf(score, result.checks),
                              !.details.confidence = ConfidenceOf(score, result.checks)],
               "normal")

\* checkSMTPDeliverability returned: smtp, catchAll, smtpResponse, provider
WithSmtp(result, deliverable, response, provider) ==
    [result EXCEPT !.checks.smtp = deliverable,
                   !.checks.catchAll = FALSE,
                   !.details.smtpResponse = response,
                   !.details.provider = IF provider = "none" THEN @ ELSE provider]

\* a verification that runs on to the MX check although the syntax check
\* failed
StartVerifyWithoutShortCircuit(email) ==
    LET result == [NewResult(email) EXCEPT !.checks.syntax = VerifyValidateEmailSyntax(email)]
    IN IF Count(email, "@") = 0
       THEN [pc |-> "done", email |-> email, p |-> 0, k |-> 0, result |-> result,
             dnsQueries |-> 0, probes |-> 0, path |-> "normal", answers |-> <<>>]
       ELSE [pc |-> "mx", email |-> email, p |-> 1, k |-> 0,
             result |-> [result EXCEPT !.checks.disposable = ~isDisposableEmail(DomainOf(email))],
             dnsQueries |-> 1, probes |-> 0, path |-> "none", answers |-> <<>>]

\* a verification that returns when the domain is disposable
StartVerifyStoppingAtDisposable(email) ==
    LET result == [NewResult(email) EXCEPT !.checks.syntax = VerifyValidateEmailSyntax(email)]
    IN IF ~result.checks.syntax \/ isDisposableEmail(DomainOf(email))
       THEN [pc |-> "done", email |-> email, p |-> 0, k |-> 0, result |-> result,
             dnsQueries |-> 0, probes |-> 0, path |-> "normal", answers |-> <<>>]
       ELSE [pc |-> "mx", email |-> email, p |-> 1, k |-> 0,
             result |-> [result EXCEPT !.checks.disposable = TRUE],
             dnsQueries |-> 1, probes |-> 0, path |-> "none", answers |-> <<>>]

\* verifyEmail up to its first await: the syntax check, with the return
\* when it fails, the disposable check and the first DNS query
StartVerify(email) ==
    LET result == [NewResult(email) EXCEPT !.checks.syntax = VerifyValidateEmailSyntax(email)]
    IN IF ~result.checks.syntax
       THEN [pc |-> "done", email |-> email, p |-> 0, k |-> 0, result |-> result,
             dnsQueries |-> 0, probes |-> 0, path |-> "normal", answers |-> <<>>]
       ELSE [pc |-> "mx", email |-> email, p |-> 1, k |-> 0,
             result |-> [result EXCEPT !.checks.disposable = ~isDisposableEmail(DomainOf(email))],
             dnsQueries |-> 1, probes |-> 0, path |-> "none", answers |-> <<>>]

\* checkMXRecords returned valid: domain and mx are set, then
\* checkSMTPDeliverability runs strategies 1 and 2 and, if neither matches,
\* starts the connectivity test of the first mail server
AfterMxValid(task, records, provider) ==
    LET result == [task.result EXCEPT !.checks.domain = TRUE, !.checks.mx = TRUE,
                                      !.details.mxRecords = records,
                                      !.details.provider = provider]
        localPart == LocalPartOf(task.email)
        domain == DomainOf(task.email)
    IN IF KnownProviderMatch(localPart, domain)
       THEN Scored(task, WithSmtp(result, TRUE, "Valid pattern for providerDomain", "providerDomain"))
       ELSE IF CorporateMatch(localPart, domain)
       THEN Scored(task, WithSmtp(result, TRUE, "Valid corporate email pattern", "Corporate"))
       ELSE [task EXCEPT !.pc = "probe", !.k = 1, !.probes = @ + 1, !.result = result]

\* checkMXRecords returned invalid: no deliverability check
AfterMxInvalid(task) ==
    Scored(task, [task.result EXCEPT !.checks.domain = FALSE, !.checks.mx = FALSE])

\* a resolution that asks the next provider although this one answered with
\* MX records
AfterMxAnswerAskingOn(task, answer) ==
    LET t == [task EXCEPT !.answers = Append(@, answer)]
    IN IF t.p < Len(dnsProviders)
       THEN [t EXCEPT !.p = @ + 1, !.dnsQueries = @ + 1]
       ELSE IF answer > 0
       THEN AfterMxValid(t, answer, dnsProviders[t.p])
       ELSE IF IsCommonProvider(DomainOf(t.email))
       THEN AfterMxValid(t, 1, "Known Provider")
       ELSE AfterMxInvalid(t)

\* one DNS provider's fetch has settled; answers is the history of what
\* the providers asked so far have answered
AfterMxAnswer(task, answer) ==
    LET t == [task EXCEPT !.answers = Append(@, answer)]
    IN IF answer > 0
       THEN AfterMxValid(t, answer, dnsProviders[t.p])
       ELSE IF t.p < Len(dnsProviders)
       THEN [t EXCEPT !.p = @ + 1, !.dnsQueries = @ + 1]
       ELSE IF IsCommonProvider(DomainOf(t.email))
       THEN AfterMxValid(t, 1, "Known Provider")
       ELSE AfterMxInvalid(t)

\* a connectivity test that goes through all of mxRecords
AfterProbeOfEveryServer(task, reachable) ==
    IF reachable
    THEN Scored(task, WithSmtp(task.result, TRUE, "Server mailServer is reachable", "mailServer"))
    ELSE IF task.k < task.result.details.mxRecords
    THEN [task EXCEPT !.k = @ + 1, !.probes = @ + 1]
    ELSE IF StructureScoreTenths(LocalPartOf(task.email), DomainOf(task.email)) >= 6
    THEN Scored(task, WithSmtp(task.result, TRUE, "High structure confidence score", "Structure Analysis"))
    ELSE Scored(task, WithSmtp(task.result, FALSE, "All verification methods failed", "none"))

\* testServerConnectivity of mail server k has settled: reachable, or the
\* next of mxRecords.slice(0, 3), or strategy 4
AfterProbe(task, reachable) ==
    IF reachable
    THEN Scored(task, WithSmtp(task.result, TRUE, "Server mailServer is reachable", "mailServer"))
    ELSE IF task.k < Min(3, task.result.details.mxRecords)
    THEN [task EXCEPT !.k = @ + 1, !.probes = @ + 1]
    ELSE IF StructureScoreTenths(LocalPartOf(task.email), DomainOf(task.email)) >= 6
    THEN Scored(task, WithSmtp(task.result, TRUE, "High structure confidence score", "Structure Analysis"))
    ELSE Scored(task, WithSmtp(task.result, FALSE, "All verification methods failed", "none"))

\* the catch of verifyEmail: with syntax passed it evaluates domain, a name
\* that is declared in the try block and not in scope here, so the catch
\* throws, verifyEmail rejects and the handler's .catch builds the result
AfterThrow(task) ==
    IF task.result.checks.syntax
    THEN Settled(task, BatchFallback(task.email), "fallback")
    ELSE Settled(task, task.result, "catch")

\* a handler that starts four verifications at a time
StartBatchOfFour(v, i) ==
    [v EXCEPT !.pc = "batch", !.i = i,
              !.tasks = [j \in 1..Min(4, Len(v.emails) - i) |->
                           StartVerify(v.emails[i + j])]]

\* batch = emails.slice(i, i + batchSize); batch.map(verifyEmail)
StartBatch(v, i) ==
    [v EXCEPT !.pc = "batch", !.i = i,
              !.tasks = [j \in 1..Min(batchSize, Len(v.emails) - i) |->
                           StartVerify(v.emails[i + j])]]

\* a handler that drops the verifications that threw
PushResultsOfReturned(results, tasks) ==
    results \o SelectSeq([j \in 1..Len(tasks) |-> tasks[j].result],
                         LAMBDA r : r.details.smtpResponse # "Error during verification")

\* results.push(...batchResults)
PushResults(results, tasks) ==
    results \o [j \in 1..Len(tasks) |-> tasks[j].result]

\* the summary and the 200 response
RespondWithSummary(v) ==
    LET Tier(c) == Cardinality({j \in 1..Len(v.results) : v.results[j].details.confidence = c})
    IN [v EXCEPT !.pc = "responded", !.response = "200", !.tasks = <<>>,
                 !.summary =
                    [total |-> Len(v.results),
                     valid |-> Cardinality({j \in 1..Len(v.results) : v.results[j].isValid}),
                     high_confidence |-> Tier("high"),
                     medium_confidence |-> Tier("medium"),
                     low_confidence |-> Tier("low")]]

otherVars == <<storeVars, site, gen, crawl, lastFound, lastPattern, email_test_results, delivery>>

\* the request arrives: 400 unless emails is an array, else the first batch
VerifyServe(request) ==
    /\ verify.pc = "idle"
    /\ verify' = IF ~request.isArray
                 THEN [verify EXCEPT !.pc = "responded", !.response = "400",
                                     !.isArray = FALSE]
                 ELSE LET v == [verify EXCEPT !.emails = request.emails]
                      IN IF Len(v.emails) > 0 THEN StartBatch(v, 0) ELSE RespondWithSummary(v)
    /\ UNCHANGED <<otherVars, faults>>

\* a DNS query of verification j settles
VerifyMx(j, answer) ==
    /\ verify.pc = "batch"
    /\ j \in DOMAIN verify.tasks
    /\ verify.tasks[j].pc = "mx"
    /\ verify' = [verify EXCEPT !.tasks[j] = AfterMxAnswer(@, answer)]
    /\ UNCHANGED <<otherVars, faults>>

\* a connectivity test of verification j settles
VerifyProbe(j, reachable) ==
    /\ verify.pc = "batch"
    /\ j \in DOMAIN verify.tasks
    /\ verify.tasks[j].pc = "probe"
    /\ verify' = [verify EXCEPT !.tasks[j] = AfterProbe(@, reachable)]
    /\ UNCHANGED <<otherVars, faults>>

\* an exception inside the try block of verification j
VerifyThrow(j) ==
    /\ verify.pc = "batch"
    /\ j \in DOMAIN verify.tasks
    /\ verify.tasks[j].pc \in {"mx", "probe"}
    /\ Charge("throw")
    /\ verify' = [verify EXCEPT !.tasks[j] = AfterThrow(@)]
    /\ UNCHANGED otherVars

\* Promise.all of the batch resolves: the results are pushed in the order
\* of the batch, then the next batch starts or the response is sent
VerifyBatchDone ==
    /\ verify.pc = "batch"
    /\ \A j \in DOMAIN verify.tasks : verify.tasks[j].pc = "done"
    /\ LET v == [verify EXCEPT !.results = PushResults(@, verify.tasks)]
       IN verify' = IF verify.i + batchSize < Len(verify.emails)
                    THEN StartBatch(v, verify.i + batchSize)
                    ELSE RespondWithSummary(v)
    /\ UNCHANGED <<otherVars, faults>>

InitVerify == InitWith({[first |-> <<"J">>, last |-> <<"D">>]}, {EmptySite})

NextVerify ==
    \/ \E request \in VerifyRequests : VerifyServe(request)
    \/ \E j \in 1..batchSize, answer \in MxAnswers : VerifyMx(j, answer)
    \/ \E j \in 1..batchSize, reachable \in BOOLEAN : VerifyProbe(j, reachable)
    \/ \E j \in 1..batchSize : VerifyThrow(j)
    \/ VerifyBatchDone

SpecVerify == InitVerify /\ [][NextVerify]_vars

\* ------------------------------------------------------------------------
\* send-test-email, test-real-delivery, the webhook and sendTestEmails
\* ------------------------------------------------------------------------
fromAddresses == <<"onboarding@resend.dev", "delivered@resend.dev">>

\* what resend.emails.send does with one send
SendOutcomes == {"accepted", "rejected", "threw"}

NoDeliveryResponse ==
    [writer |-> "none", messageId |-> 0, deliveryConfirmed |-> FALSE]

NoDetails ==
    [message_id |-> 0, bounce_type |-> "none", bounce_reason |-> "none",
     bounced_at |-> 0, delivered_at |-> 0, delivery_confirmed |-> FALSE]

\* a row of email_candidates after verification; the insert of
\* generate-email-candidates sets email_address and no column email, so the
\* columns email and verification_details the webhook names are empty
DeliveryCandidate(id, address, status) ==
    [id |-> id, test_id |-> "t1", email_address |-> address,
     email_pattern |-> P_FIRST_DOT_LAST, verification_status |-> status,
     delivery_response |-> NoDeliveryResponse,
     email |-> <<>>, verification_details |-> NoDetails]

\* the request bodies: sendTestEmails sends a valid candidate's address and
\* the test's id, the test form an address and 'manual-test', another
\* caller may send no address
SendRequests(table) ==
    {[fn |-> fn, caller |-> "results", testEmail |-> table[i].email_address,
      testId |-> table[i].test_id, candidateId |-> table[i].id,
      statusBefore |-> table[i].verification_status] :
        fn \in {"test-real-delivery", "send-test-email"},
        i \in {k \in 1..Len(table) : table[k].verification_status = "valid"}}
    \cup {[fn |-> "test-real-delivery", caller |-> "form", testEmail |-> e,
           testId |-> "manual-test", candidateId |-> 0, statusBefore |-> "none"] :
             e \in {Addr_other}}
    \cup {[fn |-> fn, caller |-> "direct", testEmail |-> <<>>, testId |-> "",
           candidateId |-> 0, statusBefore |-> "none"] :
             fn \in {"test-real-delivery", "send-test-email"}}

\* the handler returns; sendTestEmails then continues with the response
Responded(send, response) ==
    [send EXCEPT !.response = response,
                 !.pc = IF send.caller = "results" THEN "client" ELSE "done"]

\* after the loop: the failure response, or the database update of
\* test-real-delivery when it has a testId, or the success response
AfterLoop(send) ==
    IF send.emailResponse \in {"error", "none"}
    THEN Responded(send, "failed")
    ELSE IF send.fn = "test-real-delivery" /\ send.testId # ""
    THEN [send EXCEPT !.pc = "db"]
    ELSE Responded(send, "success")

\* a loop that goes on to the next sender although the send was accepted
AfterAttemptSendingOn(send, outcome, id) ==
    LET a == [send EXCEPT !.attempts = Append(@, outcome),
                          !.emailResponse = IF outcome = "accepted" THEN "ok"
                                            ELSE IF outcome = "rejected" THEN "error"
                                            ELSE @,
                          !.messageId = IF outcome = "accepted" THEN id ELSE @]
    IN IF Len(a.attempts) = Len(fromAddresses) THEN AfterLoop(a) ELSE a

\* one iteration of the loop over fromAddresses: the send, break when it
\* was accepted, lastError otherwise
AfterAttempt(send, outcome, id) ==
    LET a == [send EXCEPT !.attempts = Append(@, outcome),
                          !.emailResponse = IF outcome = "accepted" THEN "ok"
                                            ELSE IF outcome = "rejected" THEN "error"
                                            ELSE @,
                          !.messageId = IF outcome = "accepted" THEN id ELSE @]
    IN IF outcome = "accepted" \/ Len(a.attempts) = Len(fromAddresses)
       THEN AfterLoop(a)
       ELSE a

\* test-real-delivery: email_candidates.update({verification_status:
\* 'delivery_confirmed', delivery_response}).eq('email_address', testEmail)
\* .eq('test_id', testId)
ConfirmAtSend(table, send) ==
    [i \in 1..Len(table) |->
        IF table[i].email_address = send.testEmail /\ table[i].test_id = send.testId
        THEN [table[i] EXCEPT !.verification_status = "delivery_confirmed",
                              !.delivery_response =
                                 [writer |-> "test-real-delivery",
                                  messageId |-> send.messageId,
                                  deliveryConfirmed |-> TRUE]]
        ELSE table[i]]

\* sendTestEmails: email_candidates.update({verification_status:
\* deliveryStatus, delivery_response}).eq('id', candidate.id)
ClientRecord(table, send) ==
    [i \in 1..Len(table) |->
        IF table[i].id = send.candidateId
        THEN [table[i] EXCEPT !.verification_status =
                                 IF send.response = "success" THEN "delivery_confirmed"
                                 ELSE "delivery_failed",
                              !.delivery_response =
                                 [writer |-> "sendTestEmails",
                                  messageId |-> send.messageId,
                                  deliveryConfirmed |-> send.response = "success"]]
        ELSE table[i]]

WebhookTypes == {"email.bounced", "email.delivery_delayed", "email.delivered", "email.sent"}

IsBounce(event) == event.type \in {"email.bounced", "email.delivery_delayed"}

\* the events the provider posts about the messages it accepted
EventsOf(sent) ==
    {[type |-> t, email_id |-> m.id, to |-> m.to,
      bounce_type |-> IF t \in {"email.bounced", "email.delivery_delayed"}
                      THEN "hard" ELSE "none",
      bounce_reason |-> IF t \in {"email.bounced", "email.delivery_delayed"}
                        THEN "mailbox" ELSE "none"] :
        t \in WebhookTypes, m \in sent}

\* a webhook whose update matches the column the addresses are stored in
HookCandidatesByAddress(table, event, now) ==
    [i \in 1..Len(table) |->
        IF table[i].email_address # event.to THEN table[i]
        ELSE IF IsBounce(event)
        THEN [table[i] EXCEPT !.verification_status = "bounced",
                              !.verification_details =
                                 [NoDetails EXCEPT !.bounce_type = event.bounce_type,
                                                   !.bounce_reason = event.bounce_reason,
                                                   !.bounced_at = now,
                                                   !.message_id = event.email_id]]
        ELSE IF event.type = "email.delivered"
        THEN [table[i] EXCEPT !.verification_status = "valid",
                              !.verification_details =
                                 [NoDetails EXCEPT !.delivered_at = now,
                                                   !.message_id = event.email_id,
                                                   !.delivery_confirmed = TRUE]]
        ELSE table[i]]

\* webhook: the update of email_candidates, .eq('email', email)
HookCandidates(table, event, now) ==
    [i \in 1..Len(table) |->
        IF table[i].email # event.to THEN table[i]
        ELSE IF IsBounce(event)
        THEN [table[i] EXCEPT !.verification_status = "bounced",
                              !.verification_details =
                                 [NoDetails EXCEPT !.bounce_type = event.bounce_type,
                                                   !.bounce_reason = event.bounce_reason,
                                                   !.bounced_at = now,
                                                   !.message_id = event.email_id]]
        ELSE IF event.type = "email.delivered"
        THEN [table[i] EXCEPT !.verification_status = "valid",
                              !.verification_details =
                                 [NoDetails EXCEPT !.delivered_at = now,
                                                   !.message_id = event.email_id,
                                                   !.delivery_confirmed = TRUE]]
        ELSE table[i]]

\* webhook: the update of email_test_results, .eq('message_id', email_id)
HookTestResults(table, event, now) ==
    [i \in 1..Len(table) |->
        IF table[i].message_id # event.email_id THEN table[i]
        ELSE IF IsBounce(event)
        THEN [table[i] EXCEPT !.delivery_status = "bounced",
                              !.bounce_details =
                                 [bounce_type |-> event.bounce_type,
                                  bounce_reason |-> event.bounce_reason,
                                  bounced_at |-> now]]
        ELSE IF event.type = "email.delivered"
        THEN [table[i] EXCEPT !.delivery_status = "delivered",
                              !.delivery_confirmed = TRUE,
                              !.delivered_at = now]
        ELSE table[i]]

deliveryFrame ==
    <<tests, found_emails, email_patterns, crawl_sessions, site, gen, crawl,
      lastFound, lastPattern, verify>>

\* a request arrives: 400 without an address, else the loop
ServeRequest(s, request) ==
    /\ LET send == [IdleSend EXCEPT !.fn = request.fn, !.caller = request.caller,
                                    !.testEmail = request.testEmail,
                                    !.testId = request.testId,
                                    !.candidateId = request.candidateId,
                                    !.statusBefore = request.statusBefore]
       IN delivery' =
             IF request.testEmail = <<>>
             THEN [delivery EXCEPT !.sends[s] = [send EXCEPT !.pc = "done", !.response = "400"],
                                   !.lastEvent = NoEvent]
             ELSE [delivery EXCEPT !.sends[s] = [send EXCEPT !.pc = "send"],
                                   !.lastEvent = NoEvent]
    /\ UNCHANGED <<deliveryFrame, email_candidates, email_test_results, faults>>

SendServe(s) ==
    /\ delivery.sends[s].pc = "idle"
    /\ \A q \in 1..(s - 1) : delivery.sends[q].pc # "idle"
    /\ \E request \in SendRequests(email_candidates) : ServeRequest(s, request)

\* resend.emails.send with the next sender settles
SendAttempt(s, outcome) ==
    /\ delivery.sends[s].pc = "send"
    /\ delivery' =
          [delivery EXCEPT !.sends[s] = AfterAttempt(@, outcome, delivery.nextId),
                           !.nextId = IF outcome = "accepted" THEN @ + 1 ELSE @,
                           !.sent = IF outcome = "accepted"
                                    THEN @ \cup {[id |-> delivery.nextId,
                                                  to |-> delivery.sends[s].testEmail]}
                                    ELSE @,
                           !.lastEvent = NoEvent]
    /\ UNCHANGED <<deliveryFrame, email_candidates, email_test_results, faults>>

\* test-real-delivery: the database update in its own try/catch, then the
\* success response
SendRecord(s, o) ==
    /\ delivery.sends[s].pc = "db"
    /\ Charge(o)
    /\ email_candidates' = IF o = "ok"
                           THEN ConfirmAtSend(email_candidates, delivery.sends[s])
                           ELSE email_candidates
    /\ delivery' = [delivery EXCEPT !.sends[s] = Responded(@, "success"),
                                    !.lastEvent = NoEvent]
    /\ UNCHANGED <<deliveryFrame, email_test_results>>

\* sendTestEmails: the update of the candidate after the function returned
SendClientRecord(s, o) ==
    /\ delivery.sends[s].pc = "client"
    /\ Charge(o)
    /\ email_candidates' = IF o = "ok"
                           THEN ClientRecord(email_candidates, delivery.sends[s])
                           ELSE email_candidates
    /\ delivery' = [delivery EXCEPT !.sends[s].pc = "done", !.lastEvent = NoEvent]
    /\ UNCHANGED <<deliveryFrame, email_test_results>>

\* the webhook handles one event: both updates, then 200
Ingest(event) ==
    /\ email_candidates' = HookCandidates(email_candidates, event, delivery.clock)
    /\ email_test_results' = HookTestResults(email_test_results, event, delivery.clock)
    /\ delivery' = [delivery EXCEPT !.clock = @ + 1, !.hooks = @ + 1,
                                    !.delivered = IF event.type = "email.delivered"
                                                  THEN @ \cup {event.email_id} ELSE @,
                                    !.lastEvent = event]
    /\ UNCHANGED <<deliveryFrame, faults>>

\* the provider posts an event about a message it accepted
Webhook ==
    /\ delivery.hooks < MaxEvents
    /\ \E event \in EventsOf(delivery.sent) : Ingest(event)

\* two tests for the same person and domain hold the same addresses
DeliveryTestIds == {"t1", "t2"}

\* the row the insert and the verification of test testId leave
CandidateOfTest(id, testId, address, status) ==
    [DeliveryCandidate(id, address, status) EXCEPT !.test_id = testId]

\* the candidates of two verified tests
InitDelivery ==
    /\ email_candidates = <<DeliveryCandidate(1, Addr_a_b, "valid"),
                            DeliveryCandidate(2, Addr_ab, "invalid"),
                            CandidateOfTest(3, "t2", Addr_a_b, "valid")>>
    /\ \E person \in People :
          tests = [t \in DeliveryTestIds |->
                     [status |-> "completed", first_name |-> person.first,
                      last_name |-> person.last, domain |-> Str_x_c]]
    /\ found_emails = <<>>
    /\ email_patterns = <<>>
    /\ crawl_sessions = <<>>
    /\ site = EmptySite
    /\ gen = [r \in 1..MaxTriggers |-> IdleGen]
    /\ crawl = [c \in 1..MaxCrawls |-> IdleCrawl]
    /\ faults = 0
    /\ lastFound = {}
    /\ lastPattern = {}
    /\ verify = IdleVerify
    /\ email_test_results = <<>>
    /\ delivery = IdleDelivery

NextDelivery ==
    \/ \E s \in 1..MaxSends : SendServe(s)
    \/ \E s \in 1..MaxSends, outcome \in SendOutcomes : SendAttempt(s, outcome)
    \/ \E s \in 1..MaxSends, o \in Outcomes : SendRecord(s, o)
    \/ \E s \in 1..MaxSends, o \in Outcomes : SendClientRecord(s, o)
    \/ Webhook

SpecDelivery == InitDelivery /\ [][NextDelivery]_vars

\* ------------------------------------------------------------------------
\* The four trigger endpoints side by side: each request arrives at its
\* handler, which answers it at once or goes on to its first store access
\* ------------------------------------------------------------------------
GenTestIds == TestIds \cup {"", "tX"}

NextRequests ==
    \/ \E c \in 1..MaxCrawls, d \in CrawlDomains, o \in Outcomes : StartCrawl(c, d, o)
    \/ \E r \in 1..MaxTriggers, t \in GenTestIds, o \in Outcomes : GenTrigger(r, t, o)
    \/ \E request \in VerifyRequests : VerifyServe(request)
    \/ \E s \in 1..MaxSends : SendServe(s)

SpecRequests == InitDelivery /\ [][NextRequests]_vars

\* ------------------------------------------------------------------------
\* verifyEmailCandidates, the background verification of the first version
\* of generate-email-candidates: two Tests with the same candidates
\* ------------------------------------------------------------------------
NoLegacyResult ==
    [syntax_check |-> FALSE, dns_check |-> FALSE, smtp_check |-> FALSE,
     delivery_test |-> FALSE, error_message |-> FALSE]

\* let status = 'syntax_invalid'; if (syntaxValid) { ... }
LegacyStatus(syntaxValid, dnsValid, smtpValid, deliveryTest) ==
    IF ~syntaxValid THEN "syntax_invalid"
    ELSE IF ~dnsValid THEN "dns_invalid"
    ELSE IF ~smtpValid THEN "undeliverable"
    ELSE IF deliveryTest THEN "delivered"
    ELSE "deliverable"

\* email_candidates.update({verification_status, verification_result})
\* .eq('test_id', testId).eq('email_address', email)
UpdateLegacyCandidate(table, email, testId, status, result) ==
    [i \in 1..Len(table) |->
        IF table[i].email_address = email /\ table[i].test_id = testId
        THEN [table[i] EXCEPT !.verification_status = status,
                              !.verification_result = result]
        ELSE table[i]]

LegacyEmails == <<Addr_a_b, Addr_ab>>

\* the task of Test testId before checkDNSRecords
LegacyTask(testId) ==
    [pc |-> "legacyDns", testId |-> testId, emails |-> LegacyEmails, idx |-> 1,
     dnsValid |-> FALSE]

LegacyNextEmail(task) ==
    IF task.idx < Len(task.emails) THEN [task EXCEPT !.idx = @ + 1, !.pc = "legacyVerify"]
    ELSE [task EXCEPT !.pc = "legacyComplete"]

legacyFrame ==
    <<found_emails, email_patterns, crawl_sessions, site, crawl, lastFound,
      lastPattern, verify, email_test_results, delivery>>

\* const dnsResult = await checkDNSRecords(domain); it catches its own errors
LegacyCheckDns(r, valid) ==
    /\ gen[r].pc = "legacyDns"
    /\ gen' = [gen EXCEPT ![r].dnsValid = valid, ![r].pc = "legacyVerify"]
    /\ UNCHANGED <<tests, email_candidates, faults, legacyFrame>>

\* one iteration of the loop: the four steps, the status, the update;
\* smtpValid is the answer of the DNS lookup testSMTPDeliverability makes,
\* draw is Math.random() > 0.3
LegacyVerifyOne(r, smtpValid, draw, o) ==
    /\ gen[r].pc = "legacyVerify"
    /\ Charge(o)
    /\ LET email == gen[r].emails[gen[r].idx]
           syntaxValid == GenValidateEmailSyntax(email)
           dnsValid == gen[r].dnsValid
           deliveryTest == smtpValid /\ draw
           status == LegacyStatus(syntaxValid, dnsValid, smtpValid, deliveryTest)
           result == [syntax_check |-> syntaxValid, dns_check |-> dnsValid,
                      smtp_check |-> smtpValid, delivery_test |-> deliveryTest,
                      error_message |-> FALSE]
       IN /\ email_candidates' =
                IF o = "ok"
                THEN UpdateLegacyCandidate(email_candidates, email, gen[r].testId,
                                           status, result)
                ELSE email_candidates
          /\ gen' = [gen EXCEPT ![r] = IF o = "throw" THEN [@ EXCEPT !.pc = "legacyCatch"]
                                       ELSE LegacyNextEmail(@)]
    /\ UNCHANGED <<tests, legacyFrame>>

\* catch (emailError): the update with the error status
LegacyCatch(r, o) ==
    /\ gen[r].pc = "legacyCatch"
    /\ Charge(o)
    /\ email_candidates' =
          IF o = "ok"
          THEN UpdateLegacyCandidate(email_candidates, gen[r].emails[gen[r].idx],
                                     gen[r].testId, "syntax_invalid",
                                     [NoLegacyResult EXCEPT !.error_message = TRUE])
          ELSE email_candidates
    /\ gen' = [gen EXCEPT ![r] = IF o = "throw" THEN [@ EXCEPT !.pc = "legacyFail"]
                                 ELSE LegacyNextEmail(@)]
    /\ UNCHANGED <<tests, legacyFrame>>

\* tests.update({status: 'completed'}) after the loop
LegacyComplete(r, o) ==
    /\ gen[r].pc = "legacyComplete"
    /\ Charge(o)
    /\ tests' = IF o = "ok" THEN UpdateTestStatus(tests, gen[r].testId, "completed")
                ELSE tests
    /\ gen' = [gen EXCEPT ![r].pc = IF o = "throw" THEN "legacyFail" ELSE "done"]
    /\ UNCHANGED <<email_candidates, legacyFrame>>

\* the outer catch: tests.update({status: 'failed'})
LegacyFail(r, o) ==
    /\ gen[r].pc = "legacyFail"
    /\ Charge(o)
    /\ tests' = IF o = "ok" THEN UpdateTestStatus(tests, gen[r].testId, "failed")
                ELSE tests
    /\ gen' = [gen EXCEPT ![r].pc = "done"]
    /\ UNCHANGED <<email_candidates, legacyFrame>>

\* two Tests for the same person and domain after the insert of their
\* candidates and the update to verifying
InitLegacy ==
    /\ tests = [t \in DeliveryTestIds |->
                  [status |-> "verifying", first_name |-> <<"a">>,
                   last_name |-> <<"b">>, domain |-> Str_x_c]]
    /\ email_candidates =
          [i \in 1..4 |->
              [test_id |-> IF i <= 2 THEN "t1" ELSE "t2",
               email_address |-> LegacyEmails[((i - 1) % 2) + 1],
               email_pattern |-> IF i % 2 = 1 THEN P_FIRST_DOT_LAST ELSE P_FIRST_LAST,
               verification_status |-> "pending",
               verification_result |-> NoLegacyResult]]
    /\ gen = [r \in 1..MaxTriggers |-> LegacyTask(IF r = 1 THEN "t1" ELSE "t2")]
    /\ found_emails = <<>>
    /\ email_patterns = <<>>
    /\ crawl_sessions = <<>>
    /\ site = EmptySite
    /\ crawl = [c \in 1..MaxCrawls |-> IdleCrawl]
    /\ faults = 0
    /\ lastFound = {}
    /\ lastPattern = {}
    /\ verify = IdleVerify
    /\ email_test_results = <<>>
    /\ delivery = IdleDelivery

NextLegacy ==
    \/ \E r \in 1..MaxTriggers, valid \in BOOLEAN : LegacyCheckDns(r, valid)
    \/ \E r \in 1..MaxTriggers, smtpValid \in BOOLEAN, draw \in BOOLEAN, o \in Outcomes :
          LegacyVerifyOne(r, smtpValid, draw, o)
    \/ \E r \in 1..MaxTriggers, o \in Outcomes : LegacyCatch(r, o)
    \/ \E r \in 1..MaxTriggers, o \in Outcomes : LegacyComplete(r, o)
    \/ \E r \in 1..MaxTriggers, o \in Outcomes : LegacyFail(r, o)

SpecLegacy == InitLegacy /\ [][NextLegacy]_vars

\* ------------------------------------------------------------------------
\* Properties of the Test pipeline (checked under Spec)
\* ------------------------------------------------------------------------
TestOf(r) == tests[gen[r].testId]

VerifyPcs == {"bgInvoke", "bgUpdate", "bgComplete", "bgCatch"}

NoVerifyTaskRunning == \A r \in 1..MaxTriggers : gen[r].pc \notin VerifyPcs

StatusRank(status) ==
    CASE status = "pending" -> 0
      [] status = "generating" -> 1
      [] status = "verifying" -> 2
      [] status = "completed" -> 3
      [] status = "failed" -> 4

Terminal(status) == status \in {"completed", "failed"}

\* C1: once a trigger whose candidate insert returned an error has answered
\* (with its 500), the Test is not in status generating
C1_InsertFailureLeavesGenerating ==
    \A r \in 1..MaxTriggers :
        (gen[r].pc = "done" /\ gen[r].insertFailed) => TestOf(r).status # "generating"

\* C2: every Test that has reached verifying reaches completed or failed while
\* the background tasks keep running; as a final result: when no background
\* verification task is left to run, no Test is in status verifying
C2_VerifyingReachesTerminal ==
    NoVerifyTaskRunning => \A t \in TestIds : tests[t].status # "verifying"

\* C3: a status change of a Test never starts from completed or failed, and
\* it either goes to failed or goes up in pending < generating < verifying <
\* completed
C3_StatusNeverMovesBack ==
    [][\A t \in TestIds :
          tests'[t].status # tests[t].status =>
             /\ ~Terminal(tests[t].status)
             /\ \/ tests'[t].status = "failed"
                \/ StatusRank(tests[t].status) < StatusRank(tests'[t].status)]_vars

\* C4: a completed Test has no candidate whose verification_status is pending
C4_CompletedHasNoPending ==
    \A t \in TestIds :
        tests[t].status = "completed" =>
           \A i \in 1..Len(email_candidates) :
              email_candidates[i].test_id = t =>
                 email_candidates[i].verification_status # "pending"

\* C9: no two email_candidates rows of one Test carry the same email_address
C9_CandidatesUniquePerTest ==
    \A i, j \in 1..Len(email_candidates) :
        (i # j /\ email_candidates[i].test_id = email_candidates[j].test_id)
           => email_candidates[i].email_address # email_candidates[j].email_address

\* ------------------------------------------------------------------------
\* Properties of the crawl pipeline (checked under SpecCrawl)
\* ------------------------------------------------------------------------
SessionOf(c) == crawl_sessions[crawl[c].crawlSessionId]

\* C5: every session created in crawling reaches completed or failed while
\* its background task keeps running; as a final result: the session of a
\* crawl task that has ended is completed or failed
C5_CrawlSessionReachesTerminal ==
    \A c \in 1..MaxCrawls :
        crawl[c].pc = "done" => Terminal(SessionOf(c).status)

\* C6: a session that is completed or failed keeps its row (status and
\* counters) in every later step, and no session row is ever removed
C6_TerminalSessionFrozen ==
    [][/\ Len(crawl_sessions') >= Len(crawl_sessions)
       /\ \A i \in 1..Len(crawl_sessions) :
             Terminal(crawl_sessions[i].status) => crawl_sessions'[i] = crawl_sessions[i]]_vars

\* a session is terminal while a crawl of the same domain that was started
\* after it ended has ended as well, with different counters
C6_Witness ==
    \E c, d \in 1..MaxCrawls :
        /\ c \in crawl[d].doneBefore
        /\ crawl[d].pc = "done"
        /\ crawl[c].domain = crawl[d].domain
        /\ SessionOf(c).status = "completed"
        /\ Terminal(SessionOf(d).status)
        /\ SessionOf(c).emails_found > 0
        /\ SessionOf(c).emails_found # SessionOf(d).emails_found

\* crawl d is a second crawl: one that started after crawl c of the same
\* domain had ended with all its upserts applied, and that found the same
\* page contents
SecondCrawlOf(d, c) ==
    /\ c \in crawl[d].doneBefore
    /\ crawl[c].domain = crawl[d].domain
    /\ crawl[c].storeFaults = 0
    /\ crawl[d].pc \in {"store", "patterns", "finish", "catch", "done"}
    /\ crawl[d].crawlResults = crawl[c].crawlResults

\* C7: a second crawl of a domain with the same page contents adds no row to
\* found_emails and none to email_patterns
C7_SecondCrawlAddsNoRows ==
    \A c, d \in 1..MaxCrawls : SecondCrawlOf(d, c) => crawl[d].newRows = 0

\* a second crawl has ended after upserting addresses and patterns again
C7_Witness ==
    \E c, d \in 1..MaxCrawls :
        /\ SecondCrawlOf(d, c)
        /\ crawl[d].pc = "done"
        /\ crawl[d].storeFaults = 0
        /\ crawl[d].totalEmailsFound >= 2
        /\ crawl[d].patternsStored >= 1
        /\ crawl[c].newRows >= 3

\* C8: found_emails holds at most one row per (email_address, domain),
\* email_patterns at most one per (domain, pattern), and every row is the row
\* of the last upsert applied to its key
C8_UniqueKeysLastWriteWins ==
    /\ \A i, j \in 1..Len(found_emails) :
          i # j => ~SameFoundKey(found_emails[i], found_emails[j])
    /\ \A i, j \in 1..Len(email_patterns) :
          i # j => ~SamePatternKey(email_patterns[i], email_patterns[j])
    /\ Range(found_emails) = lastFound
    /\ Range(email_patterns) = lastPattern

\* two crawls of one domain are both in their store loops, and a row that
\* both have upserted carries the source of the later upsert, which is not
\* the source the other one wrote
C8_Witness ==
    \E c, d \in 1..MaxCrawls :
        /\ c # d
        /\ crawl[c].domain = crawl[d].domain
        /\ crawl[c].pc \in {"store", "patterns"}
        /\ crawl[d].pc \in {"store", "patterns"}
        /\ crawl[c].allEmails # <<>>
        /\ crawl[d].allEmails # <<>>
        /\ crawl[c].crawlResults # crawl[d].crawlResults
        /\ \E i \in 1..Len(found_emails) :
              /\ Includes(crawl[c].allEmails, found_emails[i].email_address)
              /\ Includes(crawl[d].allEmails, found_emails[i].email_address)

\* ------------------------------------------------------------------------
\* Properties of the candidate generator (checked under SpecGenerator)
\* ------------------------------------------------------------------------
Generated(r) == gen[r].pc \in {"insert", "setVerifying", "done"} /\ gen[r].patterns # <<>>

Lowered(s) == [i \in 1..Len(s) |-> LowerChar(s[i])]

\* the address a template gives for the Test of request r
AddressFor(r, pattern) ==
    LET first == Lowered(gen[r].test.first_name)
        last == Lowered(gen[r].test.last_name)
    IN ExpandPattern(pattern, first, last, <<first[1]>>, <<last[1]>>)
       \o <<"@">> \o Lowered(gen[r].test.domain)

CandidateAddresses(r) ==
    {gen[r].emailCandidates[i].email : i \in 1..Len(gen[r].emailCandidates)}

NoAddressTwice(r) ==
    \A i, j \in 1..Len(gen[r].emailCandidates) :
        i # j => gen[r].emailCandidates[i].email # gen[r].emailCandidates[j].email

DetectedFor(r) == RowsOfDomain(email_patterns, gen[r].test.domain)

\* first.last, (first initial)last, last.first and info
ScenarioAddresses(r) ==
    { AddressFor(r, <<"{first}", ".", "{last}">>),
      AddressFor(r, <<"{f}", "{last}">>),
      AddressFor(r, <<"{last}", ".", "{first}">>),
      AddressFor(r, <<"i", "n", "f", "o">>) }

\* a name without whitespace, '@' and the characters the substitutions rewrite
PlainName(s) ==
    /\ s # <<>>
    /\ \A i \in 1..Len(s) : ~IsSpace(s[i]) /\ s[i] \notin {"@", "$", "{", "}"}

\* a domain with a dot between two non-empty parts
DottedDomain(d) ==
    /\ \E k \in 2..(Len(d) - 1) : d[k] = "."
    /\ \A i \in 1..Len(d) : ~IsSpace(d[i]) /\ d[i] # "@"

PlainInputs(r) ==
    /\ PlainName(gen[r].test.first_name)
    /\ PlainName(gen[r].test.last_name)
    /\ DottedDomain(gen[r].test.domain)

\* C11 (as claimed): with no detected patterns for the domain (a domain with
\* a dot between two non-empty parts), for every first and last name the
\* candidate list contains first.last, (first initial)last, last.first and
\* info at the domain, lower-cased, and no address twice
C11_DefaultsForEveryName ==
    \A r \in 1..MaxTriggers :
        (Generated(r) /\ DetectedFor(r) = <<>> /\ DottedDomain(gen[r].test.domain)) =>
            /\ ScenarioAddresses(r) \subseteq CandidateAddresses(r)
            /\ NoAddressTwice(r)

\* C11 (amended): the same for every first and last name without whitespace,
\* '@', '$', '{' and '}' and every domain with a dot between two non-empty
\* parts
C11_DefaultsForPlainNames ==
    \A r \in 1..MaxTriggers :
        (Generated(r) /\ DetectedFor(r) = <<>> /\ PlainInputs(r)) =>
            /\ ScenarioAddresses(r) \subseteq CandidateAddresses(r)
            /\ NoAddressTwice(r)

\* a list generated from the whole library for a name typed in upper case,
\* in which several templates gave the same address
C11_Witness ==
    \E r \in 1..MaxTriggers :
        /\ Generated(r)
        /\ DetectedFor(r) = <<>>
        /\ PlainInputs(r)
        /\ gen[r].test.first_name # Lowered(gen[r].test.first_name)
        /\ gen[r].patterns = DEFAULT_EMAIL_PATTERNS
        /\ Len(gen[r].emailCandidates) > 4
        /\ Len(gen[r].emailCandidates) < Len(gen[r].patterns)

\* the pattern select of request r has answered without an error: the
\* generator call is the first call of the handler in this specification
SelectSucceeded(r) == gen[r].pc = "insert" /\ faults = 0

DetectedPatternsFor(r) ==
    {DetectedFor(r)[i].pattern : i \in 1..Len(DetectedFor(r))}

FirstFive == {DEFAULT_EMAIL_PATTERNS[k] : k \in 1..5}

\* C12 (as claimed): the pool is the detected patterns together with the
\* whole library: also when detected patterns exist, the candidate list
\* contains last.first, info, support and admin at the domain
C12_DetectedPlusWholeLibrary ==
    \A r \in 1..MaxTriggers :
        (Generated(r) /\ DetectedFor(r) # <<>> /\ PlainInputs(r)) =>
            { AddressFor(r, <<"{last}", ".", "{first}">>),
              AddressFor(r, <<"i", "n", "f", "o">>),
              AddressFor(r, <<"s", "u", "p", "p", "o", "r", "t">>),
              AddressFor(r, <<"a", "d", "m", "i", "n">>) }
                \subseteq CandidateAddresses(r)

\* C12 (amended): when the pattern select returns detected patterns, the pool
\* is these patterns together with the first five library patterns, and every
\* candidate comes from a template of that pool
C12_DetectedPlusFirstFive ==
    \A r \in 1..MaxTriggers :
        (SelectSucceeded(r) /\ DetectedFor(r) # <<>>) =>
            /\ Range(gen[r].patterns) = DetectedPatternsFor(r) \cup FirstFive
            /\ \A i \in 1..Len(gen[r].emailCandidates) :
                  gen[r].emailCandidates[i].pattern \in DetectedPatternsFor(r) \cup FirstFive

\* candidates generated from detected patterns and the first five library
\* patterns, with neither the last.first nor the info address among them
C12_Witness ==
    \E r \in 1..MaxTriggers :
        /\ SelectSucceeded(r)
        /\ DetectedFor(r) # <<>>
        /\ PlainInputs(r)
        /\ gen[r].emailCandidates # <<>>
        /\ \E i \in 1..Len(gen[r].emailCandidates) :
              gen[r].emailCandidates[i].pattern \notin FirstFive
        /\ AddressFor(r, <<"{last}", ".", "{first}">>) \notin CandidateAddresses(r)
        /\ AddressFor(r, <<"i", "n", "f", "o">>) \notin CandidateAddresses(r)

\* the rows request r has inserted
PersistedBy(r) ==
    IF gen[r].pc = "setVerifying"
    THEN SelectSeq(email_candidates, LAMBDA row : row.test_id = gen[r].testId)
    ELSE <<>>

C14_CandidatesPassVerifierSyntax ==
    \A r \in 1..MaxTriggers :
        Generated(r) =>
            \A i \in 1..Len(gen[r].emailCandidates) :
                VerifyValidateEmailSyntax(gen[r].emailCandidates[i].email)

\* ------------------------------------------------------------------------
\* Properties of the pattern detector (checked under SpecDetect)
\* ------------------------------------------------------------------------
HasDetected(c) == crawl[c].pc \in {"patterns", "finish"}

\* the number of returned patterns whose samples hold the address
BucketCount(detected, email) ==
    Cardinality({k \in 1..Len(detected) : Includes(detected[k].samples, email)})

RECURSIVE SumOfSampleCounts(_)
SumOfSampleCounts(detected) ==
    IF detected = <<>> THEN 0
    ELSE Len(Head(detected).samples) + SumOfSampleCounts(Tail(detected))

\* C15: every input address is in the samples of exactly one returned
\* pattern, and the sample counts of the returned patterns sum to the number
\* of input addresses
C15_ExactlyOneBucket ==
    \A c \in 1..MaxCrawls :
        HasDetected(c) =>
            /\ \A i \in 1..Len(crawl[c].allEmails) :
                  BucketCount(crawl[c].detectedPatterns, crawl[c].allEmails[i]) = 1
            /\ SumOfSampleCounts(crawl[c].detectedPatterns) = Len(crawl[c].allEmails)

\* a local part with exactly one dot and no underscore
SingleDotLocal(email) ==
    Count(LocalPart(email), ".") = 1 /\ Count(LocalPart(email), "_") = 0

VerifyResults ==
    {verify.tasks[j].result : j \in {t \in DOMAIN verify.tasks : verify.tasks[t].pc = "done"}}
    \cup {verify.results[k] : k \in DOMAIN verify.results}

ShortCircuited(result) ==
    /\ ~result.checks.domain
    /\ ~result.checks.mx
    /\ result.score = 0
    /\ ~result.isValid

\* C17: a syntactically invalid address short-circuits verification: its
\* result has checks.domain = false, checks.mx = false, score = 0 and
\* isValid = false, and its verification issues no DNS query and no
\* connectivity test.
C17_InvalidSyntaxShortCircuits ==
    /\ \A j \in DOMAIN verify.tasks :
          ~VerifyValidateEmailSyntax(verify.tasks[j].email)
             => /\ verify.tasks[j].pc = "done"
                /\ ShortCircuited(verify.tasks[j].result)
                /\ verify.tasks[j].dnsQueries = 0
                /\ verify.tasks[j].probes = 0
    /\ \A result \in VerifyResults :
          ~VerifyValidateEmailSyntax(result.email) => ShortCircuited(result)

\* an address with consecutive dots has its result while another address of
\* the same batch has had DNS queries and connectivity tests
C17_Witness ==
    /\ verify.pc = "batch"
    /\ \E j \in DOMAIN verify.tasks :
          /\ verify.tasks[j].email = Email_dots
          /\ verify.tasks[j].pc = "done"
          /\ ShortCircuited(verify.tasks[j].result)
    /\ \E j \in DOMAIN verify.tasks :
          verify.tasks[j].dnsQueries > 0 /\ verify.tasks[j].probes > 0

\* C18: every result of bulk verification, whether verifyEmail returned it
\* or the handler built it after an exception, has 0 <= score <= 100.
C18_ScoreBetween0And100 ==
    \A result \in VerifyResults : result.score >= 0 /\ result.score <= 100

\* the response holds a result of score 100, a result of score 0 and a
\* result built after an exception
C18_Witness ==
    /\ verify.response = "200"
    /\ \E result \in VerifyResults : result.score = 100
    /\ \E result \in VerifyResults : result.score = 0
    /\ \E result \in VerifyResults :
          result.details.smtpResponse = "Error during verification"

\* the result is the one the handler builds when verifyEmail rejected for
\* an address of valid syntax
IsErrorFallback(result) ==
    /\ result.checks.syntax
    /\ result = BatchFallback(result.email)

\* C19 (as claimed): for every verification result, score >= 50 if and only
\* if the domain and MX checks both passed and at least one of the
\* disposable-clear check and the deliverability heuristic also passed.
C19_AtLeast50IffDomainMxPlusOne ==
    \A result \in VerifyResults :
        result.score >= 50
           <=> /\ result.checks.domain
               /\ result.checks.mx
               /\ (result.checks.disposable \/ result.checks.smtp)

\* C19 (amended): for every verification result, score >= 50 if and only if
\* the domain and MX checks both passed, or the result is the one the
\* handler builds after an exception for an address of valid syntax (score
\* 50 with the domain and MX checks failed).
C19_AtLeast50IffDomainMxOrFallback ==
    \A result \in VerifyResults :
        result.score >= 50
           <=> \/ result.checks.domain /\ result.checks.mx
               \/ IsErrorFallback(result)

\* the response holds a result of score 65 of a disposable address that
\* passed the MX check and failed the heuristic, a result of score 0 and a
\* result built after an exception
C19_Witness ==
    /\ verify.response = "200"
    /\ \E result \in VerifyResults :
          /\ result.score = 65
          /\ result.checks.mx
          /\ ~result.checks.disposable
          /\ ~result.checks.smtp
    /\ \E result \in VerifyResults : result.score = 0
    /\ \E result \in VerifyResults : IsErrorFallback(result)

\* C20: for every result of bulk verification, the confidence tier is
\* determined by the score and the checks of the result: high if score >= 85,
\* otherwise medium if score >= 50 or (syntax passed and MX passed),
\* otherwise low.
C20_ConfidenceFollowsScoreAndChecks ==
    \A result \in VerifyResults :
        result.details.confidence = ConfidenceOf(result.score, result.checks)

\* the verifications of the current batch that ended with an exception
\* after their syntax check had passed
ThrownAfterSyntax ==
    {j \in DOMAIN verify.tasks :
        /\ verify.tasks[j].pc = "done"
        /\ verify.tasks[j].path \in {"fallback", "catch"}
        /\ VerifyValidateEmailSyntax(verify.tasks[j].email)}

\* C21: if an internal error occurs while verifying a candidate whose
\* syntax check has already passed, the result returned for the candidate is
\* valid with medium confidence.
C21_SalvagedAsMediumValid ==
    \A j \in ThrownAfterSyntax :
        /\ verify.tasks[j].result.isValid
        /\ verify.tasks[j].result.details.confidence = "medium"

\* C22: bulk verification returns exactly one result per input email, in
\* input order, also when verifications threw, and summary.total is the
\* number of input emails.
C22_OneResultPerEmailInOrder ==
    /\ verify.pc = "batch" =>
          /\ Len(verify.results) = verify.i
          /\ \A k \in 1..Len(verify.results) : verify.results[k].email = verify.emails[k]
    /\ verify.response = "200" =>
          /\ Len(verify.results) = Len(verify.emails)
          /\ \A k \in 1..Len(verify.emails) : verify.results[k].email = verify.emails[k]
          /\ verify.summary.total = Len(verify.emails)

\* the response to a request of two batches, one of whose verifications
\* threw
C22_Witness ==
    /\ verify.response = "200"
    /\ Len(verify.emails) > batchSize
    /\ verify.summary.total = Len(verify.emails)
    /\ \E k \in 1..Len(verify.results) :
          verify.results[k].details.smtpResponse = "Error during verification"

InFlight(v) == {j \in DOMAIN v.tasks : v.tasks[j].pc \in {"mx", "probe"}}

\* C23: at most 3 verifications of a request are in flight at any time, and
\* a batch is started only when every verification of the batch before has
\* its result and these results have been pushed.
C23_BatchesOfThreeInSequence ==
    [][/\ Cardinality(InFlight(verify')) <= 3
       /\ (verify'.pc = "batch" /\ (verify.pc = "idle" \/ verify'.i # verify.i))
             => /\ \A j \in DOMAIN verify.tasks : verify.tasks[j].pc = "done"
                /\ InFlight(verify) = {}
                /\ Len(verify'.results) = verify'.i
                /\ verify'.i = verify.i + Len(verify.tasks)]_vars

\* the second batch is running while the first batch of three has its
\* results
C23_Witness ==
    /\ verify.pc = "batch"
    /\ verify.i = batchSize
    /\ Len(verify.results) = batchSize
    /\ InFlight(verify) # {}

\* C24: the DNS providers are asked in list order and the first one that
\* answers with MX records is accepted: every provider asked before the last
\* one failed or had no MX records, no provider is asked after one answered
\* with MX records, and a provider that fails only makes the next one asked.
C24_ProvidersInOrderFirstSuccess ==
    \A j \in DOMAIN verify.tasks :
        LET t == verify.tasks[j]
            n == Len(t.answers)
        IN /\ n <= Len(dnsProviders)
           /\ \A k \in 1..(n - 1) : t.answers[k] <= 0
           /\ t.pc = "mx" => /\ \A k \in 1..n : t.answers[k] <= 0
                              /\ t.p = n + 1
                              /\ t.dnsQueries = n + 1
           /\ (n > 0 /\ t.answers[n] > 0) =>
                 /\ t.pc # "mx"
                 /\ t.p = n
                 /\ t.dnsQueries = n
                 /\ t.path # "fallback" =>
                       /\ t.result.checks.mx
                       /\ t.result.details.mxRecords = t.answers[n]

\* the first provider failed, the second had no MX records and the third
\* answered with MX records, which were accepted
C24_Witness ==
    \E j \in DOMAIN verify.tasks :
        /\ verify.tasks[j].answers = <<-1, 0, 4>>
        /\ verify.tasks[j].dnsQueries = 3
        /\ verify.tasks[j].result.checks.mx
        /\ verify.tasks[j].result.details.mxRecords = 4

\* all three providers were asked and none answered with MX records, and
\* checkMXRecords has returned
AllProvidersFailed(t) ==
    /\ Len(t.answers) = Len(dnsProviders)
    /\ \A k \in 1..Len(t.answers) : t.answers[k] <= 0
    /\ t.path # "fallback"

\* C25: when every DNS provider fails, the MX check is valid exactly when
\* the domain contains one of the known consumer mail domains, then with
\* one placeholder mail server, and invalid with no records otherwise.
C25_KnownProviderFallback ==
    \A j \in DOMAIN verify.tasks :
        LET t == verify.tasks[j]
            known == \E provider \in commonProviders :
                        Contains(ToLowerCase(Split(t.email, "@")[2]), provider)
        IN AllProvidersFailed(t) =>
              /\ t.result.checks.mx = known
              /\ t.result.checks.domain = known
              /\ t.result.details.mxRecords = (IF known THEN 1 ELSE 0)
              /\ known => t.result.details.provider \in {"Known Provider", "providerDomain"}

\* in one batch all providers failed for an address at gmail.com, which is
\* valid with one mail server, and for an address at x.c, which is not
C25_Witness ==
    /\ \E j \in DOMAIN verify.tasks :
          /\ AllProvidersFailed(verify.tasks[j])
          /\ verify.tasks[j].email = Email_gmail
          /\ verify.tasks[j].result.checks.mx
          /\ verify.tasks[j].result.details.mxRecords = 1
    /\ \E j \in DOMAIN verify.tasks :
          /\ AllProvidersFailed(verify.tasks[j])
          /\ verify.tasks[j].email = Email_a_b
          /\ ~verify.tasks[j].result.checks.mx

\* ------------------------------------------------------------------------
\* Properties of the probe send and the webhook (checked under SpecDelivery)
\* ------------------------------------------------------------------------
Accepted(send) == \E k \in 1..Len(send.attempts) : send.attempts[k] = "accepted"

\* the handler is past its loop over the sender identities
LoopEnded(send) == send.pc \in {"db", "client", "done"} /\ send.response # "400"

ReportsSuccess(send) == send.pc = "db" \/ send.response = "success"

\* C26: a probe send attempts the sender identities in list order, goes on
\* to the next one only after a rejected or thrown send, stops at the first
\* accepted send, reports success exactly when a send was accepted, and
\* never sends more often than there are identities.
C26_SendersInOrderFirstAccepted ==
    \A s \in 1..MaxSends :
        LET send == delivery.sends[s]
            n == Len(send.attempts)
        IN /\ n <= Len(fromAddresses)
           /\ \A k \in 1..(n - 1) : send.attempts[k] \in {"rejected", "threw"}
           /\ send.pc = "send" => ~Accepted(send) /\ n < Len(fromAddresses)
           /\ LoopEnded(send) =>
                 /\ ReportsSuccess(send) <=> Accepted(send)
                 /\ send.response = "failed" <=> (~Accepted(send) /\ send.pc # "db")
                 /\ ~Accepted(send) => n = Len(fromAddresses)
                 /\ Accepted(send) => send.attempts[n] = "accepted" /\ send.messageId > 0

\* the first sender was rejected, the second accepted, and the handler
\* reported success
C26_Witness ==
    \E s \in 1..MaxSends :
        /\ delivery.sends[s].attempts = <<"rejected", "accepted">>
        /\ delivery.sends[s].response = "success"
        /\ delivery.sends[s].pc = "done"

CandidatesOf(address) ==
    {i \in 1..Len(email_candidates) : email_candidates[i].email_address = address}

\* C27: after a successful probe send the delivery is recorded under the
\* provider message id with delivery status pending, and the candidate is
\* not marked delivery-confirmed until a delivered event for that message
\* has been ingested.
C27_PendingUntilDeliveredEvent ==
    \A s \in 1..MaxSends :
        LET send == delivery.sends[s]
            delivered == send.messageId \in delivery.delivered
        IN send.response = "success" =>
              /\ \E k \in 1..Len(email_test_results) :
                    /\ email_test_results[k].message_id = send.messageId
                    /\ ~delivered => email_test_results[k].delivery_status = "pending"
              /\ \A i \in CandidatesOf(send.testEmail) :
                    email_candidates[i].verification_status = "delivery_confirmed"
                       => delivered

\* C28: when a probe send fails because every sender identity was rejected,
\* the failure is reported and the candidate keeps the verification_status
\* it had before the send was requested.
C28_FailedSendKeepsStatus ==
    \A s \in 1..MaxSends :
        LET send == delivery.sends[s]
        IN (send.response = "failed" /\ send.candidateId # 0) =>
              \A i \in 1..Len(email_candidates) :
                  email_candidates[i].id = send.candidateId
                     => email_candidates[i].verification_status = send.statusBefore

\* the step is the ingestion of event e
Ingests(e) ==
    /\ delivery'.hooks = delivery.hooks + 1
    /\ delivery'.lastEvent = e

\* C29: the ingestion of a bounce event leaves the candidate bounced with
\* the bounce details of the event, and the ingestion of the same event
\* again, right after, changes neither the candidate nor the delivery record.
C29_BounceIngestionIdempotent ==
    [][\A e \in EventsOf(delivery.sent) :
          (IsBounce(e) /\ Ingests(e)) =>
             /\ \A i \in CandidatesOf(e.to) :
                   /\ email_candidates'[i].verification_status = "bounced"
                   /\ email_candidates'[i].verification_details.bounce_type = e.bounce_type
                   /\ email_candidates'[i].verification_details.bounce_reason = e.bounce_reason
             /\ delivery.lastEvent = e =>
                   /\ email_candidates' = email_candidates
                   /\ email_test_results' = email_test_results]_vars

\* C30: right after a delivered event is ingested the matching candidate
\* and delivery record are marked delivery-confirmed with a delivery
\* timestamp; right after a bounced or delivery_delayed event they are
\* marked bounced with the bounce type and reason of the event.
C30_EventMarksCandidateAndRecord ==
    LET e == delivery.lastEvent
        records == {k \in 1..Len(email_test_results) :
                       email_test_results[k].message_id = e.email_id}
    IN /\ e.type = "email.delivered" =>
             /\ \A i \in CandidatesOf(e.to) :
                   /\ \/ email_candidates[i].verification_status = "delivery_confirmed"
                      \/ email_candidates[i].verification_details.delivery_confirmed
                   /\ email_candidates[i].verification_details.delivered_at > 0
             /\ records # {}
             /\ \A k \in records : /\ email_test_results[k].delivery_confirmed
                                   /\ email_test_results[k].delivered_at > 0
       /\ IsBounce(e) =>
             /\ \A i \in CandidatesOf(e.to) :
                   /\ email_candidates[i].verification_status = "bounced"
                   /\ email_candidates[i].verification_details.bounce_type = e.bounce_type
                   /\ email_candidates[i].verification_details.bounce_reason = e.bounce_reason
             /\ records # {}
             /\ \A k \in records :
                   /\ email_test_results[k].delivery_status = "bounced"
                   /\ email_test_results[k].bounce_details.bounce_type = e.bounce_type
                   /\ email_test_results[k].bounce_details.bounce_reason = e.bounce_reason

\* the candidate row i belongs to the send that produced the message of e:
\* the address and the test id of that request
CorrelatesWith(i, e) ==
    \E s \in 1..MaxSends :
        /\ delivery.sends[s].messageId = e.email_id
        /\ email_candidates[i].email_address = delivery.sends[s].testEmail
        /\ email_candidates[i].test_id = delivery.sends[s].testId

storeRecords == <<storeVars, email_test_results>>

\* the step is the handling of a crawl request without a domain
CrawlWithoutDomain(c) ==
    /\ crawl[c].pc = "idle" /\ crawl'[c].pc # "idle"
    /\ crawl'[c].domain = <<>>
    /\ faults' = faults

\* the step is the handling of a generate request without a testId or with
\* the id of no Test
GenerateWithoutTest(r) ==
    /\ gen[r].pc = "idle" /\ gen'[r].pc # "idle"
    /\ gen'[r].testId \notin DOMAIN tests

\* the step is the handling of a bulk verification without an emails array
VerifyWithoutArray == verify.pc = "idle" /\ verify'.pc # "idle" /\ ~verify'.isArray

\* the step is the handling of a probe send without an address
SendWithoutAddress(s) ==
    /\ delivery.sends[s].pc = "idle" /\ delivery'.sends[s].pc # "idle"
    /\ delivery'.sends[s].testEmail = <<>>

\* C32: the handling of a crawl request without a domain, of a generate
\* request without a testId or with an unknown one, of a bulk verification
\* without an emails array and of a probe send without an address ends in
\* the same step with an error response and leaves every table of the store
\* as it was.
C32_RejectedRequestsMutateNothing ==
    [][/\ \A c \in 1..MaxCrawls :
             CrawlWithoutDomain(c) =>
                crawl'[c].pc = "resp400" /\ UNCHANGED storeRecords
       /\ \A r \in 1..MaxTriggers :
             GenerateWithoutTest(r) =>
                /\ gen'[r].pc = "done"
                /\ gen'[r].response = (IF gen'[r].testId = "" THEN "400"
                                       ELSE IF faults' = faults THEN "404"
                                       ELSE gen'[r].response)
                /\ gen'[r].response \in {"400", "404", "500"}
                /\ UNCHANGED storeRecords
       /\ VerifyWithoutArray =>
             verify'.response = "400" /\ UNCHANGED storeRecords
       /\ \A s \in 1..MaxSends :
             SendWithoutAddress(s) =>
                /\ delivery'.sends[s].pc = "done"
                /\ delivery'.sends[s].response = "400"
                /\ UNCHANGED storeRecords]_vars

\* all four kinds of request have been rejected while the store holds the
\* candidates it started with
C32_Witness ==
    /\ \E c \in 1..MaxCrawls : crawl[c].pc = "resp400"
    /\ \E r \in 1..MaxTriggers : gen[r].response = "400"
    /\ \E r \in 1..MaxTriggers : gen[r].response = "404" /\ gen[r].testId = "tX"
    /\ verify.response = "400" /\ ~verify.isArray
    /\ \E s \in 1..MaxSends : delivery.sends[s].response = "400"
    /\ Len(email_candidates) = 3
    /\ crawl_sessions = <<>>

\* ------------------------------------------------------------------------
\* Properties of the order of the sub-checks (checked under SpecVerify)
\* ------------------------------------------------------------------------
\* the verifications verifyEmail has finished by returning from its try block
ReturnedNormally ==
    {j \in DOMAIN verify.tasks :
        verify.tasks[j].pc = "done" /\ verify.tasks[j].path = "normal"}

\* the deliverability heuristic has produced its answer
HeuristicRan(result) == result.details.smtpResponse # "none"

\* C36: every result has checks.smtp => checks.mx and checks.mx =>
\* checks.syntax; DNS is queried only after the syntax check passed, the
\* deliverability heuristic and its connectivity tests run only after the
\* MX check passed; and for a disposable domain with valid syntax DNS is
\* still queried and, when the MX check passes, the heuristic still runs.
C36_SubChecksGatedInOrder ==
    /\ \A result \in VerifyResults :
          /\ result.checks.smtp => result.checks.mx
          /\ result.checks.mx => result.checks.syntax
    /\ \A j \in DOMAIN verify.tasks :
          LET t == verify.tasks[j]
          IN /\ t.dnsQueries > 0 => VerifyValidateEmailSyntax(t.email)
             /\ t.pc = "probe" => t.result.checks.mx /\ t.result.checks.syntax
    /\ \A j \in ReturnedNormally :
          LET t == verify.tasks[j]
          IN /\ t.probes > 0 => t.result.checks.mx
             /\ HeuristicRan(t.result) <=> t.result.checks.mx
             /\ (t.result.checks.syntax /\ isDisposableEmail(DomainOf(t.email))) =>
                   /\ ~t.result.checks.disposable
                   /\ t.dnsQueries >= 1

\* the address of a disposable domain passed the MX check and the heuristic
\* gave its answer after a connectivity test
C36_Witness ==
    \E j \in ReturnedNormally :
        LET t == verify.tasks[j]
        IN /\ t.result.checks.syntax
           /\ isDisposableEmail(DomainOf(t.email))
           /\ ~t.result.checks.disposable
           /\ t.result.checks.mx
           /\ t.probes > 0
           /\ HeuristicRan(t.result)

\* C37: for a verification whose MX check passed, the heuristic answers
\* with the first strategy that matches: the provider pattern, else the
\* corporate pattern, both without any connectivity test; else the first
\* reachable mail server among the first three MX hosts; else the structure
\* score, after all of these hosts were tested. No verification tests more
\* than three hosts.
C37_FirstMatchingStrategyAnswers ==
    /\ \A j \in DOMAIN verify.tasks : verify.tasks[j].probes <= 3
    /\ \A j \in ReturnedNormally :
          LET t == verify.tasks[j]
              localPart == LocalPartOf(t.email)
              domain == DomainOf(t.email)
              response == t.result.details.smtpResponse
              hosts == Min(3, t.result.details.mxRecords)
          IN t.result.checks.mx =>
                IF KnownProviderMatch(localPart, domain)
                THEN /\ response = "Valid pattern for providerDomain"
                     /\ t.result.checks.smtp
                     /\ t.probes = 0
                ELSE IF CorporateMatch(localPart, domain)
                THEN /\ response = "Valid corporate email pattern"
                     /\ t.result.checks.smtp
                     /\ t.probes = 0
                ELSE /\ t.probes >= 1
                     /\ t.probes <= hosts
                     /\ \/ response = "Server mailServer is reachable" /\ t.result.checks.smtp
                        \/ /\ t.probes = hosts
                           /\ IF StructureScoreTenths(localPart, domain) >= 6
                              THEN /\ response = "High structure confidence score"
                                   /\ t.result.checks.smtp
                              ELSE /\ response = "All verification methods failed"
                                   /\ ~t.result.checks.smtp

\* an address of four MX hosts matched neither pattern, three hosts were
\* tested and the structure score answered; an aol.com address of the same
\* batch, which both patterns match, was answered by the provider pattern
C37_Witness ==
    /\ \E j \in ReturnedNormally :
          /\ verify.tasks[j].result.details.mxRecords = 4
          /\ verify.tasks[j].probes = 3
          /\ verify.tasks[j].result.details.smtpResponse = "High structure confidence score"
    /\ \E j \in ReturnedNormally :
          /\ verify.tasks[j].email = Email_aol
          /\ CorporateMatch(LocalPartOf(Email_aol), DomainOf(Email_aol))
          /\ verify.tasks[j].result.details.smtpResponse = "Valid pattern for providerDomain"

\* C38: every result that verifyEmail returned without an exception has
\* checks.domain = checks.mx and isValid exactly when checks.syntax and
\* checks.mx hold, whatever checks.disposable and checks.smtp are.
C38_ValidIffSyntaxAndMx ==
    \A result \in VerifyResults :
        ~IsErrorFallback(result) =>
           /\ result.checks.domain = result.checks.mx
           /\ result.isValid <=> (result.checks.syntax /\ result.checks.mx)

\* the address of a disposable domain whose deliverability heuristic
\* failed is valid, next to an address without MX records that is not
C38_Witness ==
    /\ \E result \in VerifyResults :
          /\ ~IsErrorFallback(result)
          /\ result.checks.mx
          /\ ~result.checks.disposable
          /\ ~result.checks.smtp
          /\ result.isValid
    /\ \E result \in VerifyResults :
          /\ ~IsErrorFallback(result)
          /\ result.checks.syntax
          /\ result.checks.disposable
          /\ ~result.checks.mx
          /\ ~result.isValid

\* ------------------------------------------------------------------------
\* Properties of the page fetches of a crawl (checked under SpecCrawl)
\* ------------------------------------------------------------------------
Searched(c) == crawl[c].pc \in {"store", "patterns", "finish", "catch", "done"}

\* what the page at path p yields for crawl c
PageAddresses(c, p) ==
    IF p \in crawl[c].failedFetches THEN <<>>
    ELSE ExtractedAddresses(site[p], crawl[c].domain)

\* C35: once searchEmails has returned, every path of the list has been
\* visited; the results are in list order, one for each path whose fetch
\* succeeded and yielded addresses, with those addresses, and none for a
\* path whose fetch failed, whatever happened to the paths before it; and
\* the session is failed only after a store call has failed.
C35_AllPathsFetchedDespiteFailures ==
    \A c \in 1..MaxCrawls :
        Searched(c) =>
           LET results == crawl[c].crawlResults
           IN /\ crawl[c].pathIdx = Len(commonPaths) + 1
              /\ \A k \in 1..(Len(results) - 1) :
                    IndexOf(commonPaths, results[k].source)
                       < IndexOf(commonPaths, results[k + 1].source)
              /\ \A k \in 1..Len(commonPaths) :
                    LET p == commonPaths[k]
                    IN IF PageAddresses(c, p) = <<>>
                       THEN \A x \in 1..Len(results) : results[x].source # p
                       ELSE \E x \in 1..Len(results) :
                               /\ results[x].source = p
                               /\ results[x].emails = PageAddresses(c, p)
              /\ (SessionOf(c).status = "failed" => faults > 0)

\* the fetch of /about failed, the addresses of /team were still found, and
\* the session completed
C35_Witness ==
    \E c \in 1..MaxCrawls :
        /\ crawl[c].pc = "done"
        /\ 2 \in crawl[c].failedFetches
        /\ \E x \in 1..Len(crawl[c].crawlResults) : crawl[c].crawlResults[x].source = 3
        /\ SessionOf(c).status = "completed"

\* the distinct addresses of the domain on the pages crawl c fetched
DistinctAddresses(c) ==
    UNION {Range(PageAddresses(c, commonPaths[k])) : k \in 1..Len(commonPaths)}

\* C39: a completed session's emails_found does not exceed the number of
\* distinct addresses the crawl discovered, and equals it when every store
\* call succeeded; the sample_count of a stored pattern does not exceed the
\* number of distinct discovered addresses of that pattern.
C39_DistinctAddressesCountedOnce ==
    \A c \in 1..MaxCrawls :
        (crawl[c].pc = "done" /\ SessionOf(c).status = "completed") =>
           /\ SessionOf(c).emails_found <= Cardinality(DistinctAddresses(c))
           /\ faults = 0 => SessionOf(c).emails_found = Cardinality(DistinctAddresses(c))
           /\ \A k \in 1..Len(crawl[c].detectedPatterns) :
                 LET d == crawl[c].detectedPatterns[k]
                 IN \A x \in 1..Len(email_patterns) :
                       (email_patterns[x].domain = crawl[c].domain
                        /\ email_patterns[x].pattern = d.pattern
                        /\ email_patterns[x].sample_count = Len(d.samples))
                          => email_patterns[x].sample_count
                                <= Cardinality({e \in DistinctAddresses(c) :
                                                   Includes(BucketsOf(e), d.pattern)})

\* ------------------------------------------------------------------------
\* Properties of the writes to a candidate (checked under SpecDelivery)
\* ------------------------------------------------------------------------
\* the statuses that end a candidate's verification or its probe send
TerminalStatuses == {"valid", "invalid", "delivery_confirmed", "delivery_failed", "bounced"}

\* the step writes row i: the update of test-real-delivery and the one of
\* sendTestEmails set delivery_response, the webhook verification_details
WritesCandidate(i) == email_candidates'[i] # email_candidates[i]

\* C34: no step writes a terminal verification_status to a candidate row
\* that already holds a terminal verification_status.
C34_TerminalStatusWrittenOnce ==
    [][\A i \in 1..Len(email_candidates) :
          (WritesCandidate(i) /\ email_candidates'[i].verification_status \in TerminalStatuses)
             => email_candidates[i].verification_status \notin TerminalStatuses]_vars

\* ------------------------------------------------------------------------
\* Properties of the first version's verification (checked under SpecLegacy)
\* ------------------------------------------------------------------------
\* C33: two verifications of the same address that saw the same syntax, DNS
\* and connectivity answers and no store error wrote the same
\* verification status.
C33_SameResponsesSameVerdict ==
    \A i, j \in 1..Len(email_candidates) :
        LET a == email_candidates[i]
            b == email_candidates[j]
        IN (/\ a.verification_status # "pending"
            /\ b.verification_status # "pending"
            /\ a.email_address = b.email_address
            /\ a.verification_result.syntax_check = b.verification_result.syntax_check
            /\ a.verification_result.dns_check = b.verification_result.dns_check
            /\ a.verification_result.smtp_check = b.verification_result.smtp_check
            /\ ~a.verification_result.error_message
            /\ ~b.verification_result.error_message)
           => a.verification_status = b.verification_status

\* C40: right after a bounce event for a probe's message has been
\* ingested the probed candidate has the status bounced, whether the
\* webhook ran before the send path's own writes, between them or after
\* them.
C40_BounceSurvivesSendPath ==
    \A s \in 1..MaxSends :
        LET send == delivery.sends[s]
        IN (/\ IsBounce(delivery.lastEvent)
            /\ delivery.lastEvent.email_id = send.messageId
            /\ send.candidateId # 0)
           => \A i \in 1..Len(email_candidates) :
                 email_candidates[i].id = send.candidateId
                    => email_candidates[i].verification_status = "bounced"

====
